---- MODULE Spec2Model ----
(***************************************************************************)
(* A model of the football decision engine:                                *)
(*   - the action executor and decision loop of                            *)
(*     src/src/decision_engine/action_executor.py                          *)
(*   - the analysis engine of src/src/decision_engine/engine.py            *)
(*                                                                         *)
(* Numbers.  The program computes in floating point.  The model computes   *)
(* in fixed point on integers:                                             *)
(*   lengths in centimetres, times in milliseconds, speeds in cm/s,        *)
(*   probabilities and xG values in 1/10000 (basis points), angles in      *)
(*   1/10000 rad; an expected value, the product of two such numbers, in   *)
(*   1/100000000.                                                          *)
(* A square root is the integer square root (rounded down), a quotient is  *)
(* truncated.  Comparisons against thresholds are therefore exact except   *)
(* within one unit of the threshold; the inputs of the model stay away     *)
(* from those boundaries.                                                  *)
(*                                                                         *)
(* Objects.  Python Player objects, lists and GameState objects are        *)
(* mutable and shared by reference.  The model keeps them in a heap:       *)
(*   heap.players : address -> [id, position]                              *)
(*   heap.lists   : address -> sequence of player addresses                *)
(*   heap.states  : address -> GameState                                   *)
(* An address is the index at which the object was allocated; deepcopy     *)
(* allocates, an attribute assignment overwrites in place.                 *)
(***************************************************************************)
EXTENDS Integers, Sequences, FiniteSets, TLC

VARIABLES
    heap,                       \* the object heap (see above)
    initial_state,              \* run(): the initial_state argument (address)
    max_steps,                  \* run(): argument
    stop_on_goal,               \* run(): argument
    stop_on_possession_loss,    \* run(): argument
    current_state,              \* run(): local current_state (address)
    i,                          \* run(): completed iterations of the for loop
    steps,                      \* run(): local steps, the list returned
    pc,                         \* run(): "loop" while iterating, "done" on return
    views,                      \* history: the content of each step's input
                                \* snapshot as it was when execute was called;
                                \* the arguments of each analyze call as they
                                \* were at the call
    frame,                      \* analyze(): the arguments of the call
    outputs,                    \* analyze(): the outputs returned so far
    calls                       \* execute(): the direct calls made so far, each
                                \* with its arguments and its outcome

vars == <<heap, initial_state, max_steps, stop_on_goal,
          stop_on_possession_loss, current_state, i, steps, pc, views,
          frame, outputs, calls>>

-----------------------------------------------------------------------------
(* Bounds of the model *)

\* The largest max_steps argument run() is called with.
MaxSteps == 2

\* The number of analyze() calls made on one frame.
MaxCalls == 2

\* The number of direct execute() calls made one after the other.
MaxExecutes == 2

-----------------------------------------------------------------------------
(* Constants of action_executor.py, in the model's units *)

PLAYER_SPEED == 800         \* 8.0 m/s, in cm/s
PASS_SPEED == 1500          \* 15.0 m/s, in cm/s
REACTION_TIME == 250        \* 0.25 s, in ms
TIME_STEP == 500            \* 0.5 s, in ms

\* Python's None, as an object address and as a missing action or result.
None == 0

-----------------------------------------------------------------------------
(* Arithmetic *)

Abs(x) == IF x < 0 THEN -x ELSE x

Min(a, b) == IF a <= b THEN a ELSE b

Max(a, b) == IF a >= b THEN a ELSE b

\* a / b truncated toward zero, b > 0.
Trunc(a, b) == IF a >= 0 THEN a \div b ELSE -((-a) \div b)

\* math.sqrt on a non-negative integer, rounded down.
RECURSIVE ISqrt(_)
ISqrt(n) ==
    IF n < 2 THEN n
    ELSE LET s == 2 * ISqrt(n \div 4)
         IN  IF (s + 1) * (s + 1) <= n THEN s + 1 ELSE s

\* The element of a set of one element.  Only({e(x) : x \in {v}}) is e(v)
\* with v computed once, before e: a local variable of the program.
Only(S) == CHOOSE x \in S : TRUE

\* The smallest element of a non-empty set of integers.
MinOf(S) == Only({(CHOOSE x \in T : \A y \in T : x <= y) : T \in {S}})

-----------------------------------------------------------------------------
(* Geometry (pitch_geometry: Position, PitchGeometry) *)

\* Position.distance_to: Euclidean distance, in cm.
distance_to(p, q) ==
    ISqrt((p[1] - q[1]) * (p[1] - q[1]) + (p[2] - q[2]) * (p[2] - q[2]))

\* PitchGeometry.perpendicular_distance_to_line: the distance from point p to
\* the segment from a to b (the foot of the perpendicular clamped to the
\* segment), in cm.
perpendicular_distance_to_line(p, a, b) ==
    LET ux == b[1] - a[1]
        uy == b[2] - a[2]
        wx == p[1] - a[1]
        wy == p[2] - a[2]
        len2 == ux * ux + uy * uy
        dot == wx * ux + wy * uy
    IN  IF len2 = 0 \/ dot <= 0 THEN distance_to(p, a)
        ELSE IF dot >= len2 THEN distance_to(p, b)
        ELSE Abs(ux * wy - uy * wx) \div ISqrt(len2)

\* PitchGeometry.attacking_goal: the centre of the attacked goal (52.5, 0).
attacking_goal == <<5250, 0>>

-----------------------------------------------------------------------------
(* The heap *)

\* deepcopy of a list of players: a fresh Player per element, in order.
\* Yields the new heap and the copied list (a sequence of addresses).
deepcopy(h, addrs) ==
    LET n == Len(addrs)
        base == Len(h.players)
    IN  [heap |-> [h EXCEPT !.players =
                       h.players \o [k \in 1..n |-> h.players[addrs[k]]]],
         val  |-> [k \in 1..n |-> base + k]]

\* deepcopy(state.ball_carrier): a fresh Player, or None for None.
deepcopy_player(h, addr) ==
    IF addr = None THEN [heap |-> h, val |-> None]
    ELSE [heap |-> [h EXCEPT !.players = Append(h.players, h.players[addr])],
          val  |-> Len(h.players) + 1]

\* player.position = position: an attribute assignment, in place.
set_position(h, addr, position) ==
    [h EXCEPT !.players[addr].position = position]

\* GameState(...): a fresh GameState holding the two list objects.
GameState(h, ball_position, ball_carrier, attackers, defenders, timestamp) ==
    [heap |-> [h EXCEPT !.states = Append(h.states,
                   [ball_position |-> ball_position,
                    ball_carrier  |-> ball_carrier,
                    attackers     |-> attackers,
                    defenders     |-> defenders,
                    timestamp     |-> timestamp])],
     val  |-> Len(h.states) + 1]

\* A list built by the code, stored as a new list object.
new_list(h, addrs) ==
    [heap |-> [h EXCEPT !.lists = Append(h.lists, addrs)],
     val  |-> Len(h.lists) + 1]

\* The first element of a list of players whose test (by index) holds, or None.
FirstPlayer(addrs, test) ==
    LET hits == {k \in 1..Len(addrs) : test[k]}
    IN  IF hits = {} THEN None ELSE addrs[MinOf(hits)]

-----------------------------------------------------------------------------
(* ActionExecutor *)

\* _check_interception with the time comparison reversed (a defender
\* intercepts when it is slower than 0.8 of the pass time).
_check_interception_reversed(h, start, end, defenders) ==
    LET pass_distance == distance_to(start, end)
        Intercepts(d) ==
            LET perp_dist == perpendicular_distance_to_line(
                                 h.players[d].position, start, end)
            IN  /\ 10 * ((((REACTION_TIME * PLAYER_SPEED) \div 1000) * PASS_SPEED)
                         + (perp_dist * PASS_SPEED))
                     > 8 * pass_distance * PLAYER_SPEED
                /\ perp_dist < 300
    IN  FirstPlayer(defenders, [k \in 1..Len(defenders) |-> Intercepts(defenders[k])])

\* _check_interception: the first defender that reaches the pass line within
\* 3 m and in less than 0.8 of the pass time.  The comparison
\*   REACTION_TIME + perp / PLAYER_SPEED < pass_time * 0.8
\* is multiplied through by 10 * PLAYER_SPEED * PASS_SPEED.
_check_interception(h, start, end, defenders) ==
    LET pass_distance == distance_to(start, end)
        Intercepts(d) ==
            LET perp_dist == perpendicular_distance_to_line(
                                 h.players[d].position, start, end)
            IN  /\ 10 * ((((REACTION_TIME * PLAYER_SPEED) \div 1000) * PASS_SPEED)
                         + (perp_dist * PASS_SPEED))
                     < 8 * pass_distance * PLAYER_SPEED
                /\ perp_dist < 300
    IN  FirstPlayer(defenders, [k \in 1..Len(defenders) |-> Intercepts(defenders[k])])

\* _check_tackle: the first defender within 2 m of the start or of the end of
\* the dribble.
_check_tackle(h, start, end, defenders) ==
    LET Tackles(d) ==
            \/ distance_to(h.players[d].position, start) < 200
            \/ distance_to(h.players[d].position, end) < 200
    IN  FirstPlayer(defenders, [k \in 1..Len(defenders) |-> Tackles(defenders[k])])

\* _check_shot_block: the first defender within 2 m of the shot line and
\* nearer to the goal than the shooter.
_check_shot_block(h, shot_start, goal, defenders) ==
    LET Blocks(d) ==
            /\ perpendicular_distance_to_line(
                   h.players[d].position, shot_start, goal) < 200
            /\ distance_to(h.players[d].position, goal)
                   < distance_to(shot_start, goal)
    IN  FirstPlayer(defenders, [k \in 1..Len(defenders) |-> Blocks(defenders[k])])

\* _find_player_at: the first player nearer than threshold (2 m) to position.
_find_player_at(h, position, players) ==
    LET Near(p) == distance_to(h.players[p].position, position) < 200
    IN  FirstPlayer(players, [k \in 1..Len(players) |-> Near(players[k])])

\* _move_defenders_toward_ball: the loop over defenders, from the element after
\* those already in moved.  A defender farther than 1 m from the ball is
\* replaced by a copy moved min(PLAYER_SPEED * TIME_STEP * 0.5, dist) toward
\* the ball; a nearer one is kept as the same object.
RECURSIVE _move_defenders_loop(_, _, _, _)
_move_defenders_loop(h, defenders, ball_position, moved) ==
    IF Len(moved) = Len(defenders) THEN [heap |-> h, val |-> moved]
    ELSE
        LET defender == defenders[Len(moved) + 1]
            pos == h.players[defender].position
            dx == ball_position[1] - pos[1]
            dy == ball_position[2] - pos[2]
            dist == ISqrt(dx * dx + dy * dy)
        IN  IF dist > 100 THEN
                LET move_dist == Min((PLAYER_SPEED * TIME_STEP) \div 2000, dist)
                    new_x == pos[1] + Trunc(dx * move_dist, dist)
                    new_y == pos[2] + Trunc(dy * move_dist, dist)
                    c == deepcopy_player(h, defender)
                    h2 == set_position(c.heap, c.val, <<new_x, new_y>>)
                IN  _move_defenders_loop(h2, defenders, ball_position,
                                         Append(moved, c.val))
            ELSE _move_defenders_loop(h, defenders, ball_position,
                                      Append(moved, defender))

\* _move_defenders_toward_ball that moves nobody.
_move_defenders_nowhere(h, defenders, ball_position) ==
    [heap |-> h, val |-> defenders]

_move_defenders_toward_ball(h, defenders, ball_position) ==
    _move_defenders_loop(h, defenders, ball_position, <<>>)

\* _create_new_state, lines 347-352: the first copied attacker with the
\* carrier's id is replaced by the carrier object itself.
replace_carrier(h, new_attackers, ball_carrier) ==
    LET hits == {k \in 1..Len(new_attackers) :
                    h.players[new_attackers[k]].id = h.players[ball_carrier].id}
    IN  IF hits = {} THEN new_attackers
        ELSE [new_attackers EXCEPT ![MinOf(hits)] = ball_carrier]

\* The swap of lines 360-362 left out.
swap_lists_never(possession_change, new_attackers, new_defenders) ==
    [attackers |-> new_attackers, defenders |-> new_defenders]

\* _create_new_state, lines 360-362: the two lists, swapped on a possession
\* change.
swap_lists(possession_change, new_attackers, new_defenders) ==
    IF possession_change
    THEN [attackers |-> new_defenders, defenders |-> new_attackers]
    ELSE [attackers |-> new_attackers, defenders |-> new_defenders]

_create_new_state(h, old_state, ball_position, ball_carrier, possession_change) ==
    LET old == h.states[old_state]
        ca == deepcopy(h, h.lists[old.attackers])
        cd == deepcopy(ca.heap, ca.heap.lists[old.defenders])
        new_attackers ==
            IF ball_carrier # None /\ ~possession_change
            THEN replace_carrier(cd.heap, ca.val, ball_carrier)
            ELSE ca.val
        mv == _move_defenders_toward_ball(cd.heap, cd.val, ball_position)
        sw == swap_lists(possession_change, new_attackers, mv.val)
        la == new_list(mv.heap, sw.attackers)
        ld == new_list(la.heap, sw.defenders)
    IN  GameState(ld.heap, ball_position, ball_carrier, la.val, ld.val,
                  old.timestamp + TIME_STEP)

\* _create_kickoff_state that leaves the clock where it was.
_create_kickoff_state_same_time(h, old_state) ==
    LET old == h.states[old_state]
    IN  GameState(h, <<0, 0>>, None, old.attackers, old.defenders,
                  old.timestamp)

\* _create_kickoff_state: the ball at the centre, no carrier, the old state's
\* own list objects, one second later.
_create_kickoff_state(h, old_state) ==
    LET old == h.states[old_state]
    IN  GameState(h, <<0, 0>>, None, old.attackers, old.defenders,
                  old.timestamp + 1000)

\* ExecutionResult(action, result, new_state) with the heap after the call.
ExecutionResult(action, result, st) ==
    [heap |-> st.heap,
     val  |-> [action |-> action, result |-> result, new_state |-> st.val]]

\* _execute_pass that leaves an intercepted ball at the pass target instead of
\* the interceptor's position.
_execute_pass_ball_at_target(h, state, action) ==
    LET s == h.states[state]
        target == action.target
        interceptor == _check_interception(h, s.ball_position, target,
                                           h.lists[s.defenders])
    IN  IF interceptor # None THEN
            ExecutionResult(action, "INTERCEPTED",
                _create_new_state(h, state, target, interceptor, TRUE))
        ELSE
            LET receiver == _find_player_at(h, target, h.lists[s.attackers])
            IN  ExecutionResult(action, "SUCCESS",
                    _create_new_state(h, state, target, receiver, FALSE))

_execute_pass(h, state, action) ==
    LET s == h.states[state]
        target == action.target
        interceptor == _check_interception(h, s.ball_position, target,
                                           h.lists[s.defenders])
    IN  IF interceptor # None THEN
            ExecutionResult(action, "INTERCEPTED",
                _create_new_state(h, state, h.players[interceptor].position,
                                  interceptor, TRUE))
        ELSE
            LET receiver == _find_player_at(h, target, h.lists[s.attackers])
            IN  ExecutionResult(action, "SUCCESS",
                    _create_new_state(h, state, target, receiver, FALSE))

\* Lines 183-185 without the deepcopy: the carrier object of the input
\* snapshot itself is put at the target.
dribble_carrier_in_place(h, ball_carrier, target) ==
    IF ball_carrier # None
    THEN [heap |-> set_position(h, ball_carrier, target), val |-> ball_carrier]
    ELSE [heap |-> h, val |-> None]

\* _execute_dribble, lines 183-185: the carrier is copied and the copy is put
\* at the target.
dribble_carrier(h, ball_carrier, target) ==
    LET c == deepcopy_player(h, ball_carrier)
    IN  IF c.val # None
        THEN [heap |-> set_position(c.heap, c.val, target), val |-> c.val]
        ELSE c

_execute_dribble(h, state, action) ==
    LET s == h.states[state]
        target == action.target
        tackler == _check_tackle(h, s.ball_position, target,
                                 h.lists[s.defenders])
    IN  IF tackler # None THEN
            ExecutionResult(action, "INTERCEPTED",
                _create_new_state(h, state, h.players[tackler].position,
                                  tackler, TRUE))
        ELSE
            LET nc == dribble_carrier(h, s.ball_carrier, target)
            IN  ExecutionResult(action, "SUCCESS",
                    _create_new_state(nc.heap, state, target, nc.val, FALSE))

_execute_shot(h, state, action) ==
    LET s == h.states[state]
        blocker == _check_shot_block(h, s.ball_position, attacking_goal,
                                     h.lists[s.defenders])
    IN  IF blocker # None THEN
            ExecutionResult(action, "SAVED",
                _create_new_state(h, state, h.players[blocker].position,
                                  blocker, TRUE))
        ELSE ExecutionResult(action, "GOAL", _create_kickoff_state(h, state))

PassTypes == {"PASS_FORWARD", "PASS_LATERAL", "PASS_BACKWARD"}

DribbleTypes == {"DRIBBLE", "CARRY"}

\* action_chosen = None and result = None of a DecisionStep without action.
NoAction == [action_type |-> "None", target |-> <<0, 0>>]

\* raise ValueError(...), line 102: the call returns no ExecutionResult; the
\* exception stands in the place of the result, the heap is as it was.
ValueError(h) ==
    [heap |-> h,
     val  |-> [action |-> NoAction, result |-> "ValueError", new_state |-> None]]

\* execute without its final else branch: an action of any other type is
\* executed as a dribble.
execute_dribble_by_default(h, state, action) ==
    IF action.action_type = "SHOT" THEN _execute_shot(h, state, action)
    ELSE IF action.action_type \in PassTypes
        THEN _execute_pass(h, state, action)
    ELSE _execute_dribble(h, state, action)

\* execute with a check of the target of a pass or a dribble against the
\* touchlines and goal lines (52.5 m and 34 m from the centre spot): the
\* action is not executed and the snapshot is kept.
execute_within_pitch(h, state, action) ==
    IF action.action_type = "SHOT" THEN _execute_shot(h, state, action)
    ELSE IF action.action_type \notin PassTypes \cup DribbleTypes
        THEN ValueError(h)
    ELSE IF Abs(action.target[1]) > 5250 \/ Abs(action.target[2]) > 3400
        THEN [heap |-> h,
              val  |-> [action |-> action, result |-> "OUT_OF_BOUNDS",
                        new_state |-> state]]
    ELSE IF action.action_type \in PassTypes
        THEN _execute_pass(h, state, action)
    ELSE _execute_dribble(h, state, action)

\* ActionExecutor.execute: the dispatch on the action type.
execute(h, state, action) ==
    IF action.action_type = "SHOT" THEN _execute_shot(h, state, action)
    ELSE IF action.action_type \in PassTypes
        THEN _execute_pass(h, state, action)
    ELSE IF action.action_type \in DribbleTypes
        THEN _execute_dribble(h, state, action)
    ELSE ValueError(h)


-----------------------------------------------------------------------------
(* DecisionEngine (action_executor.py): decide, step, run *)

\* result = None of a DecisionStep without action.
NoResult == [action |-> NoAction, result |-> "None", new_state |-> None]

\* GameStateEvaluator.evaluate(state).available_actions[0] as decide returns
\* it: the top-ranked option, one of a shot at the goal, a pass or a dribble;
\* or None when the evaluator finds no action.
available_shots == {[action_type |-> "SHOT", target |-> attacking_goal]}

available_passes ==
    {[action_type |-> "PASS_FORWARD",  target |-> <<4000, 1000>>],
     [action_type |-> "PASS_LATERAL",  target |-> <<4500, 400>>],
     [action_type |-> "PASS_BACKWARD", target |-> <<4500, 500>>]}

available_dribbles ==
    {[action_type |-> "DRIBBLE", target |-> <<4500, 400>>],
     [action_type |-> "CARRY",   target |-> <<4000, 1000>>],
     [action_type |-> "DRIBBLE", target |-> <<4500, 500>>]}

\* step that records the snapshot it was given as state_after.
step_without_advance(h, state, action) ==
    IF action = NoAction THEN
        [heap |-> h,
         val  |-> [state_before |-> state, action_chosen |-> NoAction,
                   result |-> NoResult, state_after |-> state]]
    ELSE
        LET r == execute(h, state, action)
        IN  [heap |-> r.heap,
             val  |-> [state_before |-> state, action_chosen |-> action,
                       result |-> r.val, state_after |-> state]]

\* DecisionEngine.step with the action decide returned.  An exception of
\* execute is not caught: it leaves step in the place of the result.
step(h, state, action) ==
    IF action = NoAction THEN
        [heap |-> h,
         val  |-> [state_before |-> state, action_chosen |-> NoAction,
                   result |-> NoResult, state_after |-> state]]
    ELSE
        LET r == execute(h, state, action)
        IN  [heap |-> r.heap,
             val  |-> [state_before |-> state, action_chosen |-> action,
                       result |-> r.val, state_after |-> r.val.new_state]]

\* The stopping conditions with a break after every successful action.
stops_on_success(s, on_goal, on_possession_loss) ==
    \/ s.result = NoResult
    \/ s.result.result = "SUCCESS"
    \/ on_goal /\ s.result.result = "GOAL"
    \/ on_possession_loss /\ s.result.result = "INTERCEPTED"

\* The stopping conditions without the check for a goal.
stops_without_goal(s, on_goal, on_possession_loss) ==
    \/ s.result = NoResult
    \/ on_possession_loss /\ s.result.result = "INTERCEPTED"

\* run, lines 510-517: the stopping conditions checked after a step.
stops(s, on_goal, on_possession_loss) ==
    \/ s.result = NoResult
    \/ on_goal /\ s.result.result = "GOAL"
    \/ on_possession_loss /\ s.result.result = "INTERCEPTED"

\* The content of a snapshot: its fields, the two lists and every player in
\* them, as the heap h holds them.
View(h, state) ==
    LET s == h.states[state]
        Players(l) == [k \in 1..Len(h.lists[l]) |-> h.players[h.lists[l][k]]]
    IN  [fields       |-> s,
         carrier      |-> IF s.ball_carrier = None THEN <<>>
                          ELSE <<h.players[s.ball_carrier]>>,
         attacker_ids |-> h.lists[s.attackers],
         defender_ids |-> h.lists[s.defenders],
         attackers    |-> Players(s.attackers),
         defenders    |-> Players(s.defenders)]

-----------------------------------------------------------------------------
(* engine.py: constants and numeric helpers, in the model's units *)

PITCH_LENGTH == 10500       \* 105.0 m, in cm
PITCH_WIDTH == 6800         \* 68.0 m, in cm

\* The probability 1.0, in 1/10000.
One == 10000

\* np.pi, in 1/10000 rad.
Pi == 31416

\* float('inf'), as a time in ms.
Inf == 1000000000

\* The product of two fixed-point numbers in 1/10000.
Mul(a, b) == Trunc(a * b, One)

\* np.clip on a scalar.
clip(v, lo, hi) == IF v < lo THEN lo ELSE IF v > hi THEN hi ELSE v

\* np.sqrt of the squared distance between two points, in cm.
norm(p, q) ==
    ISqrt((p[1] - q[1]) * (p[1] - q[1]) + (p[2] - q[2]) * (p[2] - q[2]))

\* The sum of a sequence of integers.
RECURSIVE Sum(_)
Sum(seq) == IF seq = <<>> THEN 0 ELSE Head(seq) + Sum(Tail(seq))

\* np.mean of a non-empty sequence of integers.
mean(seq) == Trunc(Sum(seq), Len(seq))

\* np.exp on an argument in 1/10000, result in 1/10000: the power series,
\* term by term, until the terms vanish.  The program only calls it on
\* arguments between -1.0 and 0.
RECURSIVE exp_series(_, _, _)
exp_series(x, n, term) ==
    IF term = 0 \/ n > 16 THEN 0
    ELSE term + exp_series(x, n + 1, Trunc(term * x, n * One))

exp(x) == exp_series(x, 1, One)

\* np.arctan2(y, x) in 1/10000 rad, arguments in cm.  The arctangent of the
\* ratio z in [0, 1] is z * (pi/4 + 0.273 * (1 - z)), within 0.004 rad of the
\* true value; the octant is restored from the signs as arctan2 does.
arctan2(y, x) ==
    LET ay == Abs(y)
        ax == Abs(x)
        hi == Max(ax, ay)
        z == IF hi = 0 THEN 0 ELSE (Min(ax, ay) * One) \div hi
        a == (z * (7854 + ((2730 * (One - z)) \div One))) \div One
        b == IF ay > ax THEN 15708 - a ELSE a
        c == IF x < 0 THEN Pi - b ELSE b
    IN  IF y < 0 THEN -c ELSE c

\* A Python list: its elements are computed when the list is built.
list(seq) == seq \o <<>>

\* sorted(seq, key=..., reverse=...) and list.sort: a stable sort.  key[k] is
\* the key of seq[k]; elements with equal keys keep their order, also with
\* reverse=True.
sorted(seq, key, reverse) ==
    LET n == Len(seq)
        Before(b, a) ==
            \/ IF reverse THEN key[b] > key[a] ELSE key[b] < key[a]
            \/ key[b] = key[a] /\ b < a
        rank(a) == Cardinality({b \in 1..n : Before(b, a)})
    IN  list([r \in 1..n |-> seq[CHOOSE a \in 1..n : rank(a) = r - 1]])

\* PlayerState with the defaults of the dataclass: max_speed 8.0 m/s,
\* reaction_time 0.3 s.
PlayerState(player_id, team, position, facing_angle, is_goalkeeper) ==
    [player_id     |-> player_id,
     team          |-> team,
     position      |-> position,
     max_speed     |-> 800,
     reaction_time |-> 300,
     facing_angle  |-> facing_angle,
     is_goalkeeper |-> is_goalkeeper]

-----------------------------------------------------------------------------
(* CoverageZoneModel *)

\* time_to_reach that leaves the reaction time out.
time_to_reach_without_reaction(point, player) ==
    IF player.max_speed <= 0 THEN Inf
    ELSE (norm(point, player.position) * 1000) \div player.max_speed

\* CoverageZoneModel.time_to_reach, in ms.
time_to_reach(point, player) ==
    IF player.max_speed <= 0 THEN Inf
    ELSE player.reaction_time
         + (norm(point, player.position) * 1000) \div player.max_speed

-----------------------------------------------------------------------------
(* XGZoneModel *)

\* XGZoneModel._create_xg_grid: the 8 x 12 grid the constructor computes
\* (base_xg * angle_factor * central_factor at the corner of each zone, the
\* two box boosts, clipped to 0.01 .. 0.45), rounded to 1/10000.  grid[j][i]
\* is xg[j - 1, i - 1].
grid ==
    << << 100,  100,  100,  100,  100,  100,  141,  195,  258,  319,  350,  302>>,
       << 100,  100,  100,  100,  100,  135,  199,  286,  400,  527,  621,  573>>,
       << 100,  100,  100,  100,  114,  174,  263,  393,  576,  815, 1913, 1990>>,
       << 100,  100,  100,  100,  136,  209,  322,  494,  753, 1135, 2985, 4500>>,
       << 100,  100,  100,  100,  151,  234,  362,  561,  869, 1346, 3752, 4500>>,
       << 100,  100,  100,  100,  136,  209,  322,  494,  753, 1135, 2985, 3831>>,
       << 100,  100,  100,  100,  114,  174,  263,  393,  576,  815, 1063, 1105>>,
       << 100,  100,  100,  100,  100,  135,  199,  286,  400,  527,  621,  573>> >>

grid_x == 12
grid_y == 8

\* XGZoneModel.get_xg.
get_xg(position) ==
    LET gx == clip(Trunc((position[1] + PITCH_LENGTH \div 2) * grid_x,
                         PITCH_LENGTH), 0, grid_x - 1)
        gy == clip(Trunc((position[2] + PITCH_WIDTH \div 2) * grid_y,
                         PITCH_WIDTH), 0, grid_y - 1)
    IN  grid[gy + 1][gx + 1]

-----------------------------------------------------------------------------
(* DefensiveGapDetector *)

min_gap_size == 600             \* 6.0 m
exploitable_threshold == 1000   \* 1.0 s

DefensiveGap(location, size, time_to_close, between_players, exploitable, xg) ==
    [location        |-> location,
     size            |-> size,
     time_to_close   |-> time_to_close,
     between_players |-> between_players,
     exploitable     |-> exploitable,
     xg_if_exploited |-> xg]

\* DefensiveGapDetector._analyze_gap: the gap between two defenders as a
\* list of one element, the empty list for None.
\* _analyze_gap without the min_gap_size filter of lines 247-248.
_analyze_gap_any_size(d1, d2) ==
    LET gap_center == <<Trunc(d1.position[1] + d2.position[1], 2),
                        Trunc(d1.position[2] + d2.position[2], 2)>>
        gap_size == norm(d2.position, d1.position)
        time_to_close == Min(time_to_reach(gap_center, d1),
                             time_to_reach(gap_center, d2))
        ball_arrival_time == 800
    IN  <<DefensiveGap(gap_center, gap_size, time_to_close,
              <<d1.player_id, d2.player_id>>,
              time_to_close > ball_arrival_time + exploitable_threshold,
              get_xg(gap_center))>>

\* _analyze_gap that compares the closing time with the exploitability
\* margin alone, without the ball-arrival estimate of line 257.
_analyze_gap_without_ball_arrival(d1, d2) ==
    LET gap_center == <<Trunc(d1.position[1] + d2.position[1], 2),
                        Trunc(d1.position[2] + d2.position[2], 2)>>
        gap_size == norm(d2.position, d1.position)
        time_to_close == Min(time_to_reach(gap_center, d1),
                             time_to_reach(gap_center, d2))
    IN  IF gap_size < min_gap_size THEN <<>>
        ELSE <<DefensiveGap(gap_center, gap_size, time_to_close,
                   <<d1.player_id, d2.player_id>>,
                   time_to_close > exploitable_threshold,
                   get_xg(gap_center))>>

_analyze_gap(d1, d2) ==
    LET gap_center == <<Trunc(d1.position[1] + d2.position[1], 2),
                        Trunc(d1.position[2] + d2.position[2], 2)>>
        gap_size == norm(d2.position, d1.position)
        time_to_close == Min(time_to_reach(gap_center, d1),
                             time_to_reach(gap_center, d2))
        ball_arrival_time == 800
    IN  IF gap_size < min_gap_size THEN <<>>
        ELSE <<DefensiveGap(gap_center, gap_size, time_to_close,
                   <<d1.player_id, d2.player_id>>,
                   time_to_close > ball_arrival_time + exploitable_threshold,
                   get_xg(gap_center))>>

\* The concatenation of a sequence of sequences.
RECURSIVE Flatten(_)
Flatten(seqs) == IF seqs = <<>> THEN <<>> ELSE Head(seqs) \o Flatten(Tail(seqs))

\* DefensiveGapDetector._detect_vertical_gaps.
_detect_vertical_gaps(defenders) ==
    IF Len(defenders) < 4 THEN <<>>
    ELSE
        LET n == Len(defenders)
            y_offsets == <<-1500, 0, 1500>>
            \* the gap found at one y_offset, or nothing
            At(gap_x, max_gap, y_offset) ==
                LET gap_center == <<gap_x, y_offset>>
                    time_to_close ==
                        MinOf({time_to_reach(gap_center, defenders[k]) : k \in 1..n})
                IN  IF time_to_close > 1000
                    THEN <<DefensiveGap(gap_center, max_gap, time_to_close,
                               <<-1, -1>>, TRUE, get_xg(gap_center))>>
                    ELSE <<>>
            \* lines 293-320, with the largest x-gap and its index found
            Lines(sorted_by_x, max_gap, gap_index) ==
                LET back_avg_x ==
                        mean([k \in 1..gap_index |-> sorted_by_x[k].position[1]])
                    mid_avg_x ==
                        mean([k \in 1..(n - gap_index) |->
                                 sorted_by_x[gap_index + k].position[1]])
                IN  IF max_gap > 1000
                    THEN Only({Flatten([k \in 1..3 |-> At(gap_x, max_gap, y_offsets[k])]) :
                                 gap_x \in {Trunc(back_avg_x + mid_avg_x, 2)}})
                    ELSE <<>>
        IN  Only({
                LET x_gap(k) == sorted_by_x[k + 1].position[1]
                                    - sorted_by_x[k].position[1]
                IN  Only({Lines(sorted_by_x, max_gap,
                                \* the first index at which the largest gap is found
                                IF max_gap = 0 THEN 1
                                ELSE MinOf({k \in 1..(n - 1) : x_gap(k) = max_gap})) :
                            max_gap \in
                                {Max(0, CHOOSE g \in {x_gap(k) : k \in 1..(n - 1)} :
                                            \A k \in 1..(n - 1) : x_gap(k) <= g)}}) :
                sorted_by_x \in
                    {sorted(defenders,
                            [k \in 1..n |-> defenders[k].position[1]], FALSE)}})

\* DefensiveGapDetector.detect_gaps.
detect_gaps(defenders) ==
    IF Len(defenders) < 2 THEN <<>>
    ELSE
        LET n == Len(defenders)
        IN  Only({
                Only({sorted(gaps, [k \in 1..Len(gaps) |-> gaps[k].xg_if_exploited],
                             TRUE) :
                        gaps \in
                            {Flatten([k \in 1..(n - 1) |->
                                         _analyze_gap(sorted_defenders[k],
                                                      sorted_defenders[k + 1])])
                                 \o _detect_vertical_gaps(defenders)}}) :
                sorted_defenders \in
                    {sorted(defenders,
                            [k \in 1..n |-> defenders[k].position[1]], FALSE)}})

-----------------------------------------------------------------------------
(* InterceptionModel *)

ball_speed_ground == 1500       \* 15.0 m/s

\* InterceptionModel.interception_probability, the loop over the sample
\* points: the time advantage at each of them.
time_advantages(pass_start, pass_end, defenders, pass_length) ==
    LET pass_vector == <<pass_end[1] - pass_start[1], pass_end[2] - pass_start[2]>>
        num_samples == Max(pass_length \div 200, 5)
        time_advantage(k) ==
            LET point == <<pass_start[1] + Trunc(k * pass_vector[1], num_samples),
                           pass_start[2] + Trunc(k * pass_vector[2], num_samples)>>
                ball_time == (k * pass_length * 1000)
                                 \div (num_samples * ball_speed_ground)
                min_defender_time ==
                    MinOf({time_to_reach(point, defenders[d]) :
                               d \in 1..Len(defenders)})
            IN  ball_time - min_defender_time
    IN  {time_advantage(k) : k \in 0..num_samples}

\* The curve with 0.5 + m * 0.4 in its third branch, which runs from 0.3 to
\* 0.5 and meets the second branch at m = 0.
advantage_to_probability_continuous(min_time_advantage) ==
    IF min_time_advantage > 500 THEN 9000
    ELSE IF min_time_advantage > 0 THEN 5000 + min_time_advantage * 8
    ELSE IF min_time_advantage > -500 THEN 5000 + min_time_advantage * 4
    ELSE Max(500, 1000 + min_time_advantage)

\* InterceptionModel.interception_probability, lines 488-498: the
\* probability for the smallest time advantage.
advantage_to_probability(min_time_advantage) ==
    IF min_time_advantage > 500 THEN 9000
    ELSE IF min_time_advantage > 0 THEN 5000 + min_time_advantage * 8
    ELSE IF min_time_advantage > -500 THEN 3000 + min_time_advantage * 4
    ELSE Max(500, 1000 + min_time_advantage)

\* interception_probability without the guard of lines 459-460 on the
\* length of the pass.
interception_probability_any_length(pass_start, pass_end, defenders) ==
    IF Len(defenders) = 0 THEN 0
    ELSE Only({Only({advantage_to_probability(min_time_advantage) :
                       min_time_advantage \in
                           {MinOf(time_advantages(pass_start, pass_end,
                                                  defenders, pass_length))}}) :
                 pass_length \in {norm(pass_end, pass_start)}})

\* InterceptionModel.interception_probability for a ground pass.
interception_probability(pass_start, pass_end, defenders) ==
    IF Len(defenders) = 0 THEN 0
    ELSE Only({IF pass_length < 10 THEN 0
               ELSE Only({advantage_to_probability(min_time_advantage) :
                            min_time_advantage \in
                                {MinOf(time_advantages(pass_start, pass_end,
                                                       defenders, pass_length))}}) :
                 pass_length \in {norm(pass_end, pass_start)}})

\* InterceptionModel.can_intercept for a ground pass: <<can_intercept,
\* intercept_point>>, the point being t of np.linspace(0, 1, 20) in 1/10000.
can_intercept(pass_start, pass_end, defender) ==
    LET pass_vector == <<pass_end[1] - pass_start[1], pass_end[2] - pass_start[2]>>
        pass_length == norm(pass_end, pass_start)
        \* the defender is at the k-th point before the ball
        first_at(k) ==
            LET point == <<pass_start[1] + Trunc(k * pass_vector[1], 19),
                           pass_start[2] + Trunc(k * pass_vector[2], 19)>>
                ball_time == (k * pass_length * 1000) \div (19 * ball_speed_ground)
                defender_time == time_to_reach(point, defender)
            IN  defender_time < ball_time
        reached == {k \in 0..19 : first_at(k)}
    IN  IF pass_length < 10 THEN <<FALSE, 0>>
        ELSE IF reached # {} THEN <<TRUE, Trunc(MinOf(reached) * One, 19)>>
        ELSE <<FALSE, One>>

-----------------------------------------------------------------------------
(* PassSuccessModel *)

\* PassSuccessModel.DISTANCE_DECAY: <<distance in cm, success rate>>.
DISTANCE_DECAY ==
    << <<500, 9500>>, <<1000, 9000>>, <<1500, 8500>>, <<2000, 7800>>,
       <<2500, 7000>>, <<3000, 6200>>, <<3500, 5500>>, <<4000, 4800>> >>

\* PassSuccessModel._distance_to_probability.
_distance_to_probability(distance) ==
    LET n == Len(DISTANCE_DECAY)
    IN  IF distance <= DISTANCE_DECAY[1][1] THEN DISTANCE_DECAY[1][2]
        ELSE IF distance >= DISTANCE_DECAY[n][1]
             THEN Trunc(DISTANCE_DECAY[n][2] * 8, 10)
        ELSE LET k == CHOOSE k \in 1..(n - 1) :
                          /\ DISTANCE_DECAY[k][1] <= distance
                          /\ distance < DISTANCE_DECAY[k + 1][1]
                 d1 == DISTANCE_DECAY[k][1]
                 d2 == DISTANCE_DECAY[k + 1][1]
                 p1 == DISTANCE_DECAY[k][2]
                 p2 == DISTANCE_DECAY[k + 1][2]
             IN  p1 + Trunc((distance - d1) * (p2 - p1), d2 - d1)

\* PassSuccessModel.success_probability; passer_pressure in 1/10000.
success_probability(passer_pos, target_pos, defenders, passer_pressure, is_forward) ==
    Only({clip(Mul(Mul(Mul(base_prob, pressure_factor), direction_factor),
                   One - Trunc(interception_prob * 7, 10)), 500, 9800) :
            base_prob \in {_distance_to_probability(norm(target_pos, passer_pos))},
            pressure_factor \in {One - passer_pressure \div 4},
            direction_factor \in {IF is_forward THEN 9000 ELSE One},
            interception_prob \in
                {interception_probability(passer_pos, target_pos, defenders)}})

-----------------------------------------------------------------------------
(* ShotModel *)

GOAL_WIDTH == 732               \* 7.32 m
GOAL_X == 5250                  \* PITCH_LENGTH / 2

\* ShotModel._position_xg.
_position_xg(pos) ==
    LET x == pos[1]
        y == pos[2]
        distance == norm(<<GOAL_X, 0>>, pos)
        angle_left == arctan2(-(GOAL_WIDTH \div 2) - y, GOAL_X - x)
        angle_right == arctan2((GOAL_WIDTH \div 2) - y, GOAL_X - x)
        goal_angle == Abs(angle_right - angle_left)
        base == IF distance < 500 THEN 6000
                ELSE IF distance < 1100
                     THEN Mul(4000, exp(-((distance * 100) \div 15)))
                ELSE IF distance < 1650
                     THEN Mul(2000, exp(-((distance * 100) \div 20)))
                ELSE IF distance < 2500
                     THEN Mul(800, exp(-((distance * 100) \div 30)))
                ELSE Mul(300, exp(-((distance * 100) \div 40)))
        angle_factor == Min(One, goal_angle * 2)
        central_factor == One - (Abs(y) * 4000) \div (GOAL_WIDTH * 2)
    IN  clip(Mul(Mul(base, angle_factor), central_factor), 100, 7500)

\* ShotModel._defender_blocking, the loop: total_block_prob after the
\* defenders of the list, each contributing its block_prob.
RECURSIVE combine_blocks(_, _)
combine_blocks(block_probs, total_block_prob) ==
    IF block_probs = <<>> THEN total_block_prob
    ELSE combine_blocks(Tail(block_probs),
             One - Mul(One - total_block_prob, One - Head(block_probs)))

\* ShotModel._defender_blocking.
_defender_blocking(shooter_pos, defenders) ==
    LET x == shooter_pos[1]
        y == shooter_pos[2]
        shot_vector == <<GOAL_X - x, 0 - y>>
        shot_distance == norm(<<GOAL_X, 0>>, shooter_pos)
        \* the block probability of one defender; 0 where the loop continues
        block_prob(defender) ==
            LET def_vector == <<defender.position[1] - x, defender.position[2] - y>>
                def_distance == norm(defender.position, shooter_pos)
                dot == def_vector[1] * shot_vector[1] + def_vector[2] * shot_vector[2]
                projection == Trunc(dot, shot_distance)
                perp_distance ==
                    Abs(shot_vector[1] * def_vector[2] - shot_vector[2] * def_vector[1])
                        \div shot_distance
                in_line == IF perp_distance < 50 THEN 7000
                           ELSE IF perp_distance < 100 THEN 4000
                           ELSE IF perp_distance < 150 THEN 2000
                           ELSE IF perp_distance < 200 THEN 1000
                           ELSE 0
                distance_factor == Max(3000, One - (projection * One) \div shot_distance)
            IN  IF defender.is_goalkeeper THEN 0
                ELSE IF def_distance > shot_distance THEN 0
                ELSE IF dot < 0 THEN 0
                ELSE Mul(in_line, distance_factor)
    IN  IF Len(defenders) = 0 THEN 0
        ELSE IF shot_distance < 10 THEN 0
        ELSE clip(combine_blocks([k \in 1..Len(defenders) |-> block_prob(defenders[k])], 0),
                  0, 9000)

\* ShotModel._goalkeeper_save; goalkeeper is a list of at most one player.
_goalkeeper_save(shooter_pos, goalkeeper) ==
    IF goalkeeper = <<>> THEN 0
    ELSE
        LET shot_distance == norm(<<GOAL_X, 0>>, shooter_pos)
            gk_to_center == Abs(goalkeeper[1].position[2])
            positioning_factor == Max(0, One - (gk_to_center * One) \div (GOAL_WIDTH \div 2))
            distance_factor == IF shot_distance < 600 THEN 4000
                               ELSE IF shot_distance < 1100 THEN 5500
                               ELSE IF shot_distance < 1650 THEN 6500
                               ELSE 7500
            save_prob == Mul(distance_factor, 5000 + positioning_factor \div 2)
        IN  clip(save_prob, 1000, 8500)

\* shot_probability that counts the goalkeepers of the defender list as
\* blockers and the lowest save probability of a goalkeeper, 0.1, where
\* there is none.
shot_probability_always_kept(shooter_pos, defenders, goalkeeper) ==
    Only({<<Mul(Mul(base_xg, One - block_prob), One - save_prob), block_prob, save_prob>> :
            base_xg \in {_position_xg(shooter_pos)},
            block_prob \in
                {_defender_blocking(shooter_pos,
                     [k \in 1..Len(defenders) |->
                         [defenders[k] EXCEPT !.is_goalkeeper = FALSE]])},
            save_prob \in {Max(1000, _goalkeeper_save(shooter_pos, goalkeeper))}})

\* ShotModel.shot_probability: <<final_xg, block_prob, save_prob>>.
shot_probability(shooter_pos, defenders, goalkeeper) ==
    Only({<<Mul(Mul(base_xg, One - block_prob), One - save_prob), block_prob, save_prob>> :
            base_xg \in {_position_xg(shooter_pos)},
            block_prob \in {_defender_blocking(shooter_pos, defenders)},
            save_prob \in {_goalkeeper_save(shooter_pos, goalkeeper)}})

-----------------------------------------------------------------------------
(* DribbleModel *)

\* DribbleModel._local_pressure.
_local_pressure(pos, defenders) ==
    IF Len(defenders) = 0 THEN 0
    ELSE
        LET closest == MinOf({norm(defenders[k].position, pos) :
                                  k \in 1..Len(defenders)})
        IN  IF closest < 200 THEN 9000
            ELSE IF closest < 400 THEN 6000
            ELSE IF closest < 600 THEN 3000
            ELSE IF closest < 1000 THEN 1000
            ELSE 0

\* DribbleModel._dribble_success.
_dribble_success(start_pos, end_pos, defenders) ==
    LET base_success == 7500
        dribble_distance == norm(end_pos, start_pos)
        dribble_time == (dribble_distance * 1000) \div 500
        midpoint == <<Trunc(start_pos[1] + end_pos[1], 2),
                      Trunc(start_pos[2] + end_pos[2], 2)>>
        \* the value a defender lowers min_pressure to
        pressure_of(defender) ==
            LET time_to_mid == time_to_reach(midpoint, defender)
                time_to_end == time_to_reach(end_pos, defender)
            IN  IF time_to_mid < dribble_time \div 2 THEN 3000
                ELSE IF time_to_end < dribble_time THEN 5000
                ELSE IF time_to_end < dribble_time + 500 THEN 7000
                ELSE One
        min_pressure == MinOf({One} \cup {pressure_of(defenders[k]) :
                                              k \in 1..Len(defenders)})
        current_pressure == _local_pressure(start_pos, defenders)
        success_prob == Mul(Mul(base_success, min_pressure),
                            One - Trunc(current_pressure * 3, 10))
    IN  clip(success_prob, 1000, 9000)

\* DribbleModel.dribble_options, the displacements of the five directions:
\* 5.0 m at the angles 0, pi/6, -pi/6, pi/3, -pi/3 from forward.
\* A fan of one direction, straight ahead.
dribble_directions_forward == << <<500, 0>> >>

dribble_directions ==
    << <<500, 0>>, <<433, 250>>, <<433, -250>>, <<250, 433>>, <<250, -433>> >>

\* DribbleModel.dribble_options: <<target, success_prob, xg_target>> per
\* direction.
dribble_options(ball_pos, defenders) ==
    [k \in 1..Len(dribble_directions) |->
        LET target == <<clip(ball_pos[1] + dribble_directions[k][1],
                             -(PITCH_LENGTH \div 2) + 100, PITCH_LENGTH \div 2 - 100),
                        clip(ball_pos[2] + dribble_directions[k][2],
                             -(PITCH_WIDTH \div 2) + 100, PITCH_WIDTH \div 2 - 100)>>
        IN  <<target, _dribble_success(ball_pos, target, defenders), get_xg(target)>>]

-----------------------------------------------------------------------------
(* ReceiverModel *)

\* ReceiverModel._post_reception_pressure.
_post_reception_pressure(receiver_pos, defenders) ==
    IF Len(defenders) = 0 THEN 0
    ELSE
        LET control_time == 500
            score(defender) ==
                LET time_after_control ==
                        time_to_reach(receiver_pos, defender) - control_time
                IN  IF time_after_control < 300 THEN 9000
                    ELSE IF time_after_control < 700 THEN 6000
                    ELSE IF time_after_control < 1200 THEN 3000
                    ELSE 1000
            scores == [k \in 1..Len(defenders) |-> score(defenders[k])]
            pressure_scores == sorted(scores, scores, TRUE)
        IN  IF Len(pressure_scores) >= 2
            THEN Trunc(pressure_scores[1] * 7 + pressure_scores[2] * 3, 10)
            ELSE pressure_scores[1]

\* ReceiverModel.reception_quality:
\* <<reception_difficulty, post_pressure, facing_goal>>.
reception_quality(passer_pos, receiver, defenders) ==
    LET pass_angle == arctan2(receiver.position[2] - passer_pos[2],
                              receiver.position[1] - passer_pos[1])
        angle_diff0 == Abs(receiver.facing_angle - (pass_angle + Pi))
        angle_diff == Min(angle_diff0, 2 * Pi - angle_diff0)
        reception_difficulty ==
            IF 4 * angle_diff < Pi THEN 1000
            ELSE IF 2 * angle_diff < Pi THEN 3000
            ELSE IF 4 * angle_diff < 3 * Pi THEN 5000
            ELSE 7000
        goal_direction == arctan2(0 - receiver.position[2],
                                  PITCH_LENGTH \div 2 - receiver.position[1])
        facing_goal_diff0 == Abs(receiver.facing_angle - goal_direction)
        facing_goal_diff == Min(facing_goal_diff0, 2 * Pi - facing_goal_diff0)
    IN  <<reception_difficulty,
          _post_reception_pressure(receiver.position, defenders),
          2 * facing_goal_diff < Pi>>

-----------------------------------------------------------------------------
(* DecisionEngine (engine.py): analyze *)

ev_threshold_high == 500        \* 0.05
ev_threshold_safe == 200        \* 0.02

\* An expected value is a product of two numbers in 1/10000 and is kept
\* exactly, in 1/100000000.
ProgressionOption(action_type, target_player_id, target_position, success, interception, xg_current, xg_target, xg_gain, turnover_cost, expected_value, recommendation, receiver_pressure, receiver_facing_goal) ==
    [action_type              |-> action_type,
     target_player_id         |-> target_player_id,
     target_position          |-> target_position,
     success_probability      |-> success,
     interception_probability |-> interception,
     xg_current               |-> xg_current,
     xg_target                |-> xg_target,
     xg_gain                  |-> xg_gain,
     turnover_cost            |-> turnover_cost,
     expected_value           |-> expected_value,
     recommendation           |-> recommendation,
     receiver_pressure        |-> receiver_pressure,
     receiver_facing_goal     |-> receiver_facing_goal]

\* best_option = None.
NoOption ==
    ProgressionOption("None", None, <<0, 0>>, 0, 0, 0, 0, 0, 0, 0, "None", 0, TRUE)

\* DecisionEngine._calculate_pressure.
_calculate_pressure(ball_position, opponents) ==
    IF Len(opponents) = 0 THEN 0
    ELSE
        LET distances == [k \in 1..Len(opponents) |->
                             norm(opponents[k].position, ball_position)]
            closest_3 == SubSeq(sorted(distances, distances, FALSE),
                                1, Min(3, Len(distances)))
            avg_distance == mean(closest_3)
        IN  Max(0, One - (avg_distance * One) \div 1500)

\* DecisionEngine._estimate_turnover_cost.
_estimate_turnover_cost(ball_pos, target_pos) ==
    LET x == ball_pos[1]
        base_cost == IF 6 * x > PITCH_LENGTH THEN 800
                     ELSE IF 6 * x > -PITCH_LENGTH THEN 500
                     ELSE 200
        distance == norm(target_pos, ball_pos)
    IN  Trunc(base_cost * (5000 + distance), 5000)

\* DecisionEngine._get_recommendation; ev in 1/100000000.
\* _get_recommendation without its SAFE branch.
_get_recommendation_without_safe(ev, success_prob) ==
    IF ev >= ev_threshold_high * One THEN "HIGH_VALUE"
    ELSE IF ev >= ev_threshold_safe * One THEN "MODERATE"
    ELSE IF ev >= 0 THEN "LOW_VALUE"
    ELSE "AVOID"

_get_recommendation(ev, success_prob) ==
    IF ev >= ev_threshold_high * One THEN "HIGH_VALUE"
    ELSE IF success_prob >= 8500 /\ ev >= 0 THEN "SAFE"
    ELSE IF ev >= ev_threshold_safe * One THEN "MODERATE"
    ELSE IF ev >= 0 THEN "LOW_VALUE"
    ELSE "AVOID"

\* DecisionEngine._analyze_shot_option: a list of one option, the empty list
\* for None.
_analyze_shot_option(ball_pos, opponents, goalkeeper) ==
    LET goal_x == PITCH_LENGTH \div 2
        distance_to_goal == norm(<<goal_x, 0>>, ball_pos)
    IN  IF distance_to_goal > 3000 THEN <<>>
        ELSE Only({
                LET final_xg == shot[1]
                    block_prob == shot[2]
                    success_prob == final_xg
                    xg_current == 0
                    xg_target == final_xg
                    xg_gain == final_xg
                    turnover_cost == 200
                    ev == success_prob * One - (One - success_prob) * turnover_cost
                    recommendation == IF final_xg > 1500 THEN "HIGH_VALUE"
                                      ELSE IF final_xg > 800 THEN "MODERATE"
                                      ELSE IF final_xg > 400 THEN "LOW_VALUE"
                                      ELSE "AVOID"
                IN  <<ProgressionOption("shoot", None, <<goal_x, 0>>, success_prob,
                          block_prob, xg_current, xg_target, xg_gain, turnover_cost,
                          ev, recommendation, 0, TRUE)>> :
                shot \in {shot_probability(ball_pos, opponents, goalkeeper)}})

\* DecisionEngine._analyze_dribble_options.
_analyze_dribble_options(ball_pos, opponents) ==
    Only({
        [k \in 1..Len(dribble_data) |->
            LET target_pos == dribble_data[k][1]
                success_prob == dribble_data[k][2]
                xg_target == dribble_data[k][3]
                xg_gain == xg_target - xg_current
            IN  Only({
                    LET ev == success_prob * xg_gain
                                  - (One - success_prob) * turnover_cost
                    IN  ProgressionOption("dribble", None, target_pos, success_prob,
                            One - success_prob, xg_current, xg_target, xg_gain,
                            turnover_cost, ev, _get_recommendation(ev, success_prob),
                            0, TRUE) :
                    turnover_cost \in {_estimate_turnover_cost(ball_pos, target_pos)}})] :
        dribble_data \in {list(dribble_options(ball_pos, opponents))},
        xg_current \in {get_xg(ball_pos)}})

\* DecisionEngine._analyze_pass_option.
_analyze_pass_option(ball_pos, target, opponents, ball_pressure) ==
    Only({
        LET target_pos == target.position
            reception_diff == quality[1]
            post_pressure == quality[2]
            facing_goal == quality[3]
            success_prob == Mul(base_success, One - Trunc(reception_diff * 3, 10))
            xg_at_target == get_xg(target_pos)
            xg_pressed == IF post_pressure > 7000 THEN Trunc(xg_at_target * 6, 10)
                          ELSE IF post_pressure > 4000 THEN Trunc(xg_at_target * 8, 10)
                          ELSE xg_at_target
            xg_target == IF ~facing_goal THEN Trunc(xg_pressed * 85, 100)
                         ELSE xg_pressed
            xg_gain == xg_target - xg_current
            ev == success_prob * xg_gain - (One - success_prob) * turnover_cost
        IN  ProgressionOption("pass", target.player_id, target_pos, success_prob,
                intercept_prob, xg_current, xg_target, xg_gain, turnover_cost, ev,
                _get_recommendation(ev, success_prob), post_pressure, facing_goal) :
        quality \in {reception_quality(ball_pos, target, opponents)},
        base_success \in
            {success_probability(ball_pos, target.position, opponents, ball_pressure,
                                 \* is_forward
                                 target.position[1] > ball_pos[1])},
        intercept_prob \in
            {interception_probability(ball_pos, target.position, opponents)},
        xg_current \in {get_xg(ball_pos)},
        turnover_cost \in {_estimate_turnover_cost(ball_pos, target.position)}})

\* DecisionEngine._analyze_gap_option.
_analyze_gap_option(ball_pos, gap, opponents, ball_pressure) ==
    Only({
        LET target_pos == gap.location
            xg_target == gap.xg_if_exploited
            xg_gain == xg_target - xg_current
            ev == success_prob * xg_gain - (One - success_prob) * turnover_cost
        IN  ProgressionOption("through_ball", None, target_pos, success_prob,
                intercept_prob, xg_current, xg_target, xg_gain, turnover_cost, ev,
                _get_recommendation(ev, success_prob), 0, TRUE) :
        success_prob \in
            {Trunc(success_probability(ball_pos, gap.location, opponents,
                                       ball_pressure, TRUE) * 85, 100)},
        intercept_prob \in
            {interception_probability(ball_pos, gap.location, opponents)},
        xg_current \in {get_xg(ball_pos)},
        turnover_cost \in {_estimate_turnover_cost(ball_pos, gap.location)}})

\* The options left in the order in which they were generated.
sort_options_skipped(options) == options

\* analyze, line 1140: options.sort(key=expected_value, reverse=True).
sort_options(options) ==
    Only({sorted(unsorted,
                 [k \in 1..Len(unsorted) |-> unsorted[k].expected_value], TRUE) :
            unsorted \in {list(options)}})

\* analyze, line 1143: options[0] if options else None.
best_of(options) == IF options # <<>> THEN options[1] ELSE NoOption

\* for x in xs: if ...: found = x; break -- the first element of the matches
\* as a list of one element, the empty list when found stays None.
first(seq) == IF seq = <<>> THEN <<>> ELSE <<Head(seq)>>

\* DecisionEngine.analyze.
\* Line 1146: the number of options whose expected value is at least
\* ev_threshold_high.
high_value(options) ==
    Cardinality({k \in 1..Len(options) :
        options[k].expected_value >= ev_threshold_high * One})

\* The count of line 1147 with > in the place of >=.
safe_above(options) ==
    Cardinality({k \in 1..Len(options) : options[k].success_probability > 8000})

\* Line 1147: the number of options whose success probability is at least
\* 0.80.
safe(options) ==
    Cardinality({k \in 1..Len(options) : options[k].success_probability >= 8000})

analyze(ball_position, ball_carrier_id, possession_team, teammates, opponents, timestamp) ==
    LET \* lines 1106-1137: the options in the order they are generated
        Generated(gaps, ball_pressure) ==
            LET \* the first teammate with the carrier's id, the first goalkeeper
                ball_carrier == first(SelectSeq(teammates,
                                          LAMBDA t : t.player_id = ball_carrier_id))
                goalkeeper == first(SelectSeq(opponents, LAMBDA o : o.is_goalkeeper))
                shot_option == _analyze_shot_option(ball_position, opponents, goalkeeper)
                receivers == SelectSeq(teammates,
                                       LAMBDA t : t.player_id # ball_carrier_id)
                pass_options == [k \in 1..Len(receivers) |->
                                    _analyze_pass_option(ball_position, receivers[k],
                                                         opponents, ball_pressure)]
                exploitable_gaps == SelectSeq(gaps, LAMBDA g : g.exploitable)
                gap_options == [k \in 1..Len(exploitable_gaps) |->
                                   _analyze_gap_option(ball_position,
                                       exploitable_gaps[k], opponents, ball_pressure)]
                carrier_options ==
                    IF ball_carrier # <<>>
                    THEN _analyze_dribble_options(ball_position, opponents)
                    ELSE <<>>
            IN  shot_option \o pass_options \o gap_options \o carrier_options
        \* lines 1145-1160
        Output(gaps, options) ==
            [timestamp           |-> timestamp,
             ball_position       |-> ball_position,
             ball_carrier_id     |-> ball_carrier_id,
             possession_team     |-> possession_team,
             defensive_gaps      |-> gaps,
             progression_options |-> options,
             best_option         |-> best_of(options),
             total_options       |-> Len(options),
             high_value_options  |-> high_value(options),
             safe_options        |-> safe(options)]
    IN  Only({
            Only({Output(gaps, options) :
                    options \in {sort_options(Generated(gaps, ball_pressure))}}) :
            gaps \in {detect_gaps(opponents)},
            ball_pressure \in {_calculate_pressure(ball_position, opponents)}})

\* The arguments of one analyze call.
Frame(ball_position, ball_carrier_id, possession_team, teammates, opponents, timestamp) ==
    [ball_position   |-> ball_position,
     ball_carrier_id |-> ball_carrier_id,
     possession_team |-> possession_team,
     teammates       |-> teammates,
     opponents       |-> opponents,
     timestamp       |-> timestamp]

\* No analyze call is made in a run of the decision loop.
NoFrame == Frame(<<0, 0>>, None, 0, <<>>, <<>>, 0)

-----------------------------------------------------------------------------
(* The initial snapshot and the arguments of run *)

\* Where each attacker and each defender of the initial snapshot may stand.
AttackerPositions ==
    << {<<4500, 0>>, <<3000, 0>>}, {<<4500, 600>>, <<4000, 1000>>} >>

DefenderPositions ==
    << {<<5000, 0>>, <<4500, 400>>, <<3500, 500>>},
       {<<4000, 1000>>, <<4500, 560>>, <<2000, 2000>>} >>

\* Where a ball without carrier may lie.
LooseBalls == {<<4500, 0>>}

InitialHeap(a1, a2, d1, d2, carrier, ball) ==
    [players |-> << [id |-> "A1", position |-> a1],
                    [id |-> "A2", position |-> a2],
                    [id |-> "D1", position |-> d1],
                    [id |-> "D2", position |-> d2] >>,
     lists   |-> << <<1, 2>>, <<3, 4>> >>,
     states  |-> << [ball_position |-> ball, ball_carrier |-> carrier,
                     attackers |-> 1, defenders |-> 2, timestamp |-> 0] >>]

Init ==
    /\ \E a1 \in AttackerPositions[1], a2 \in AttackerPositions[2],
          d1 \in DefenderPositions[1], d2 \in DefenderPositions[2],
          carrier \in {None, 1, 2} :
          \E ball \in (IF carrier = None THEN LooseBalls
                       ELSE {<<a1, a2>>[carrier]}) :
              heap = InitialHeap(a1, a2, d1, d2, carrier, ball)
    /\ initial_state = 1
    /\ max_steps \in 0..MaxSteps
    /\ stop_on_goal \in BOOLEAN
    /\ stop_on_possession_loss \in BOOLEAN
    /\ current_state = 1
    /\ i = 0
    /\ steps = <<>>
    /\ pc = "loop"
    /\ views = <<>>
    /\ frame = NoFrame
    /\ outputs = <<>>
    /\ calls = <<>>

\* One iteration of the for loop of run with the action decide returned:
\* the step is appended, then the loop breaks or advances.
Iterate(action) ==
    /\ pc = "loop"
    /\ i < max_steps
    /\ \E st \in {step(heap, current_state, action)} :
           /\ heap' = st.heap
           /\ IF st.val.result.result = "ValueError"
              THEN \* the exception leaves run: nothing is returned
                   /\ pc' = "raised"
                   /\ UNCHANGED <<steps, views, current_state, i>>
              ELSE /\ steps' = Append(steps, st.val)
                   /\ views' = Append(views, View(heap, current_state))
                   /\ IF stops(st.val, stop_on_goal, stop_on_possession_loss)
                      THEN pc' = "done" /\ UNCHANGED <<current_state, i>>
                      ELSE /\ pc' = "loop"
                           /\ current_state' = st.val.state_after
                           /\ i' = i + 1
    /\ UNCHANGED <<initial_state, max_steps, stop_on_goal,
                   stop_on_possession_loss, frame, outputs, calls>>

StepShot == \E action \in available_shots : Iterate(action)

StepPass == \E action \in available_passes : Iterate(action)

StepDribble == \E action \in available_dribbles : Iterate(action)

StepNoAction == Iterate(NoAction)

\* range(max_steps) is exhausted: run returns steps.
Return ==
    /\ pc = "loop"
    /\ i >= max_steps
    /\ pc' = "done"
    /\ UNCHANGED <<heap, initial_state, max_steps, stop_on_goal,
                   stop_on_possession_loss, current_state, i, steps, views,
                   frame, outputs, calls>>

Next == StepShot \/ StepPass \/ StepDribble \/ StepNoAction \/ Return

Spec == Init /\ [][Next]_vars

\* The control flow of run: while the loop runs, a step of it either ends
\* the loop (a break, or range(max_steps) exhausted) or begins the next
\* iteration.  Every step of Next is such a step.
Advance ==
    /\ pc = "loop"
    /\ \/ pc' = "done" /\ i' = i
       \/ pc' = "loop" /\ i' = i + 1

\* run is one call of a single thread, which is never suspended for ever:
\* while the loop runs, it advances.
FairSpec == Spec /\ WF_<<pc, i>>(Advance)

-----------------------------------------------------------------------------
(* Direct calls of ActionExecutor.execute *)

\* Actions whose type is none of the six execute dispatches on: the kinds of
\* a ProgressionOption of engine.py, and no type at all.
unknown_actions ==
    {[action_type |-> "through_ball", target |-> <<4500, 400>>],
     [action_type |-> "shoot",        target |-> attacking_goal],
     [action_type |-> "None",         target |-> <<4000, 1000>>]}

InitExecute ==
    /\ \E a1 \in AttackerPositions[1], a2 \in AttackerPositions[2],
          d1 \in DefenderPositions[1], d2 \in DefenderPositions[2],
          carrier \in {None, 1, 2} :
          \E ball \in (IF carrier = None THEN LooseBalls
                       ELSE {<<a1, a2>>[carrier]}) :
              heap = InitialHeap(a1, a2, d1, d2, carrier, ball)
    /\ initial_state = 1
    /\ current_state = 1
    /\ calls = <<>>
    /\ max_steps = 0
    /\ stop_on_goal = FALSE
    /\ stop_on_possession_loss = FALSE
    /\ i = 0
    /\ steps = <<>>
    /\ pc = "done"
    /\ views = <<>>
    /\ frame = NoFrame
    /\ outputs = <<>>

\* One call executor.execute(current_state, action) by a client that threads
\* the snapshot: it goes on with the new state of a result, and keeps the
\* snapshot it has when the call raises.
Execute(action) ==
    /\ Len(calls) < MaxExecutes
    /\ \E r \in {execute(heap, current_state, action)} :
           /\ heap' = r.heap
           /\ calls' = Append(calls,
                            [state     |-> current_state,
                             view      |-> View(heap, current_state),
                             allocated |-> Len(heap.states),
                             action    |-> action,
                             outcome   |-> r.val])
           /\ current_state' = IF r.val.result = "ValueError"
                                THEN current_state
                                ELSE r.val.new_state
    /\ UNCHANGED <<initial_state, max_steps, stop_on_goal,
                   stop_on_possession_loss, i, steps, pc, views, frame,
                   outputs>>

ExecuteKnown ==
    \E action \in available_shots \cup available_passes \cup available_dribbles :
        Execute(action)

ExecuteUnknown == \E action \in unknown_actions : Execute(action)

\* Actions whose target lies outside the pitch: behind the goal line and
\* beyond the touchline.
out_of_pitch_actions ==
    {[action_type |-> "DRIBBLE",      target |-> <<5400, 400>>],
     [action_type |-> "PASS_FORWARD", target |-> <<4500, 3500>>]}

ExecuteOutOfPitch == \E action \in out_of_pitch_actions : Execute(action)

NextExecute == ExecuteKnown \/ ExecuteUnknown \/ ExecuteOutOfPitch

SpecExecute == InitExecute /\ [][NextExecute]_vars


-----------------------------------------------------------------------------
(* The frames analyze is called on *)

\* The ball: in front of the goal, at the edge of the box, outside the box
\* but in shooting range, at the centre spot, in the own third, and by the
\* corner flag.
BallPositions ==
    {<<4500, 0>>, <<3800, 300>>, <<3000, 500>>, <<0, 0>>, <<-4000, -1000>>,
     <<5200, 3100>>}

\* The ball_carrier_id argument: teammate 1, a player that is not among the
\* teammates, or None.
CarrierIds == {1, 9, None}

\* The teammates: teammate 1 is on the ball.  Teammate 5 is a short square
\* pass away from the corner flag; teammate 6 stands 16.8 m behind the centre
\* spot, where a pass from the spot has success probability 0.80.
Teammates(ball_position) ==
    LET t1 == PlayerState(1, 0, ball_position, 0, FALSE)
        t2 == PlayerState(2, 0, <<4000, 1000>>, 0, FALSE)
        t3 == PlayerState(3, 0, <<2000, -1500>>, Pi, FALSE)
        t4 == PlayerState(4, 0, <<4700, -400>>, 15708, FALSE)
        t5 == PlayerState(5, 0, <<4400, 2500>>, 0, FALSE)
        t6 == PlayerState(6, 0, <<-1680, 0>>, 0, FALSE)
    IN  {<<>>, <<t1>>, <<t1, t2>>, <<t3, t1, t4>>, <<t1, t2, t3, t4>>,
         <<t1, t5>>, <<t1, t6>>}

\* The opponents: none, a goalkeeper alone, a goalkeeper behind a
\* back line, and two lines of defenders.
Opponents ==
    LET gk == PlayerState(11, 1, <<5150, 50>>, Pi, TRUE)
        o1 == PlayerState(12, 1, <<4800, 0>>, Pi, FALSE)
        o2 == PlayerState(13, 1, <<4000, 1500>>, Pi, FALSE)
        o3 == PlayerState(14, 1, <<3000, -1500>>, Pi, FALSE)
        o4 == PlayerState(15, 1, <<1500, 200>>, Pi, FALSE)
        o5 == PlayerState(16, 1, <<4600, -300>>, Pi, FALSE)
    IN  {<<>>, <<gk>>, <<o1, gk>>, <<o2, o3, gk>>, <<gk, o5, o2, o3, o4>>}

InitAnalyze ==
    /\ \E ball_position \in BallPositions, ball_carrier_id \in CarrierIds,
          opponents \in Opponents :
          \E teammates \in Teammates(ball_position) :
              frame = Frame(ball_position, ball_carrier_id, 0, teammates,
                            opponents, 0)
    /\ outputs = <<>>
    /\ heap = [players |-> <<>>, lists |-> <<>>, states |-> <<>>]
    /\ initial_state = None
    /\ max_steps = 0
    /\ stop_on_goal = FALSE
    /\ stop_on_possession_loss = FALSE
    /\ current_state = None
    /\ i = 0
    /\ steps = <<>>
    /\ pc = "done"
    /\ views = <<>>
    /\ calls = <<>>

\* analyze with a gap detector that sorts the list of defenders it is given
\* in place (defenders.sort) instead of building a sorted copy.
arguments_sorted_in_place(f) ==
    [f EXCEPT !.opponents =
        sorted(f.opponents,
               [k \in 1..Len(f.opponents) |-> f.opponents[k].position[1]], FALSE)]

\* The arguments as analyze leaves them.  analyze and the models it calls
\* only read the two player lists and the players in them: the lists they
\* sort or append to are their own (sorted(...) at lines 213 and 281, the
\* local gaps, options and pressure_scores), and no attribute of the engine
\* or of its models is assigned outside the constructors.
arguments_after(f) == f

\* One call of analyze on the frame.
Analyze ==
    /\ Len(outputs) < MaxCalls
    /\ outputs' = Append(outputs,
                     analyze(frame.ball_position, frame.ball_carrier_id,
                             frame.possession_team, frame.teammates,
                             frame.opponents, frame.timestamp))
    /\ views' = Append(views, frame)
    /\ frame' = arguments_after(frame)
    /\ UNCHANGED <<heap, initial_state, max_steps, stop_on_goal,
                   stop_on_possession_loss, current_state, i, steps, pc, calls>>

NextAnalyze == Analyze

SpecAnalyze == InitAnalyze /\ [][NextAnalyze]_vars

-----------------------------------------------------------------------------
(* Calls of the models of engine.py on their own *)

\* An opponent with the fields the defaults of PlayerState leave open.
Opponent(player_id, position, max_speed, reaction_time, is_goalkeeper) ==
    [PlayerState(player_id, 1, position, Pi, is_goalkeeper)
        EXCEPT !.max_speed = max_speed, !.reaction_time = reaction_time]

\* A list of defenders with default speed and reaction time at the
\* positions given, with the ids 21, 22, ...
defenders_at(positions) ==
    [k \in 1..Len(positions) |-> Opponent(20 + k, positions[k], 800, 300, FALSE)]

\* The elements of seq at the indexes in S, in the order of the list or in
\* the opposite order.
pick(seq, S, reverse) ==
    [r \in 1..Cardinality(S) |->
        seq[CHOOSE a \in S :
                Cardinality({b \in S : IF reverse THEN b > a ELSE b < a}) = r - 1]]

\* Positions of one or two defenders: the pair of the scenario, (33, 3) and
\* (30, 18); pairs 5, 6, 24 and 30 m apart.
PairPositions ==
    {<<3300, 300>>, <<3000, 1800>>, <<3000, -1500>>, <<3000, 1500>>,
     <<0, 0>>, <<500, 0>>, <<600, 0>>, <<2400, 0>>}

\* Positions of three to five defenders: four 10 m apart, one 11 m and one
\* 30 m in front of the last of them.
LinePositions ==
    << <<-3000, 0>>, <<-2000, 0>>, <<-1000, 0>>, <<0, 0>>, <<1100, 0>>,
       <<3000, 500>> >>

\* The defender lists detect_gaps is called on.
DefenderLists ==
    {defenders_at(<<>>)}
    \cup {defenders_at(<<p>>) : p \in PairPositions}
    \cup {defenders_at(<<p, q>>) : p, q \in PairPositions}
    \cup {defenders_at(pick(LinePositions, S, reverse)) :
            S \in {T \in SUBSET (1..Len(LinePositions)) : Cardinality(T) >= 3},
            reverse \in BOOLEAN}

\* The passes: no pass at all, passes of 5 and 9 cm, of 10 cm, of 10 and of
\* 30 m and a diagonal one.
PassEnds ==
    {<<0, 0>>, <<5, 0>>, <<0, -9>>, <<10, 0>>, <<1000, 0>>, <<3000, 0>>,
     <<3000, 1000>>}

\* The defenders of a pass: on the origin of the pass, on its path, at its
\* end, off the path and far away; one who cannot move, one who reacts at
\* once.
PassDefenders ==
    {Opponent(21, <<0, 0>>, 800, 300, FALSE),
     Opponent(22, <<1500, 0>>, 800, 300, FALSE),
     Opponent(23, <<3000, 0>>, 800, 300, FALSE),
     Opponent(24, <<1500, 2000>>, 800, 300, FALSE),
     Opponent(25, <<-4000, 0>>, 800, 300, FALSE),
     Opponent(26, <<1500, 0>>, 0, 300, FALSE),
     Opponent(27, <<0, 0>>, 800, 0, FALSE),
     Opponent(28, <<100, 0>>, 800, 0, FALSE)}

\* The shooters: 3.5 m in front of the goal centre, on it, 5 and 10 cm from
\* it, and three in range.
ShooterPositions ==
    {<<4900, 0>>, <<5250, 0>>, <<5245, 0>>, <<5240, 0>>, <<3000, 500>>,
     <<4000, -1000>>, <<4500, 800>>}

\* The players in front of a shooter: an outfield player and a player flagged
\* as goalkeeper in the line of the shot from (49, 0), an outfield player in
\* the line of the other shots, one beside it.
ShotDefenders ==
    {Opponent(21, <<5000, 0>>, 800, 300, FALSE),
     Opponent(22, <<5100, 0>>, 800, 300, TRUE),
     Opponent(23, <<4500, -600>>, 800, 300, FALSE),
     Opponent(24, <<4000, 2000>>, 800, 300, FALSE),
     Opponent(25, <<5248, 0>>, 800, 300, FALSE)}

Goalkeepers ==
    {<<>>, <<Opponent(11, <<5150, 50>>, 800, 300, TRUE)>>,
     <<Opponent(11, <<5200, -300>>, 800, 300, TRUE)>>}

\* The points and the top speeds time_to_reach is called with.
Points == {<<0, 0>>, <<800, 0>>, <<3000, 4000>>}
MaxSpeeds == {-100, 0, 1, 800}

\* The lists of at most two different players of a set.
lists_of(players) ==
    {<<>>} \cup {<<a>> : a \in players}
           \cup {<<a, b>> : a, b \in players}

\* The arguments of one call of a model.
Arguments(function, points, players, goalkeeper) ==
    [function |-> function, points |-> points, players |-> players,
     goalkeeper |-> goalkeeper]

InitModels ==
    /\ \/ \E defenders \in DefenderLists :
              frame = Arguments("detect_gaps", <<>>, defenders, <<>>)
       \/ \E pass_end \in PassEnds, defenders \in lists_of(PassDefenders) :
              frame = Arguments("interception_probability",
                                <<<<0, 0>>, pass_end>>, defenders, <<>>)
       \/ \E pass_end \in PassEnds, defender \in PassDefenders :
              frame = Arguments("can_intercept", <<<<0, 0>>, pass_end>>,
                                <<defender>>, <<>>)
       \/ \E shooter_pos \in ShooterPositions,
             defenders \in lists_of(ShotDefenders), goalkeeper \in Goalkeepers :
              frame = Arguments("shot_probability", <<shooter_pos>>, defenders,
                                goalkeeper)
       \/ \E point \in Points, position \in Points, max_speed \in MaxSpeeds :
              frame = Arguments("time_to_reach", <<point>>,
                                <<Opponent(21, position, max_speed, 300, FALSE)>>,
                                <<>>)
    /\ outputs = <<>>
    /\ heap = [players |-> <<>>, lists |-> <<>>, states |-> <<>>]
    /\ initial_state = None
    /\ max_steps = 0
    /\ stop_on_goal = FALSE
    /\ stop_on_possession_loss = FALSE
    /\ current_state = None
    /\ i = 0
    /\ steps = <<>>
    /\ pc = "done"
    /\ views = <<>>
    /\ calls = <<>>

\* One call of a model: the value it returns is appended to outputs, its
\* arguments to views.  The models only read their arguments.
Call(function, value) ==
    /\ frame.function = function
    /\ Len(outputs) < MaxCalls
    /\ outputs' = Append(outputs, value)
    /\ views' = Append(views, frame)
    /\ UNCHANGED <<frame, heap, initial_state, max_steps, stop_on_goal,
                   stop_on_possession_loss, current_state, i, steps, pc, calls>>

DetectGaps == Call("detect_gaps", detect_gaps(frame.players))

InterceptionProbability ==
    Call("interception_probability",
         interception_probability(frame.points[1], frame.points[2], frame.players))

CanIntercept ==
    Call("can_intercept",
         can_intercept(frame.points[1], frame.points[2], frame.players[1]))

ShotProbability ==
    Call("shot_probability",
         shot_probability(frame.points[1], frame.players, frame.goalkeeper))

TimeToReach ==
    Call("time_to_reach", time_to_reach(frame.points[1], frame.players[1]))

NextModels ==
    \/ DetectGaps
    \/ InterceptionProbability
    \/ CanIntercept
    \/ ShotProbability
    \/ TimeToReach

SpecModels == InitModels /\ [][NextModels]_vars

-----------------------------------------------------------------------------
(* C1 *)

\* C1: in every output of analyze the progression_options are sorted
\* non-increasing by expected_value, and best_option is the first element of
\* the list, None if and only if the list is empty.
C1_OptionsSortedBestFirst ==
    \A n \in 1..Len(outputs) :
        LET options == outputs[n].progression_options
            best_option == outputs[n].best_option
        IN  /\ \A k \in 1..(Len(options) - 1) :
                   options[k].expected_value >= options[k + 1].expected_value
            /\ (best_option = NoOption) <=> (options = <<>>)
            /\ options # <<>> => best_option = options[1]

\* An output in which the sort has reordered the options: the shot, which is
\* generated first, is not the best of at least three options of different
\* expected values.
C1_Witness ==
    \E n \in 1..Len(outputs) :
        LET options == outputs[n].progression_options
        IN  /\ Len(options) >= 3
            /\ options[1].action_type # "shoot"
            /\ \E k \in 2..Len(options) : options[k].action_type = "shoot"
            /\ options[1].expected_value > options[Len(options)].expected_value
            /\ outputs[n].best_option = options[1]

-----------------------------------------------------------------------------
(* C2 *)

\* C2: for every option of every kind (shoot, pass, through_ball, dribble) in
\* an output of analyze, expected_value equals
\* success_probability * xg_gain - (1 - success_probability) * turnover_cost
\* recomputed from the option's own fields.
C2_ExpectedValueRecomputed ==
    \A n \in 1..Len(outputs) :
        LET options == outputs[n].progression_options
        IN  \A k \in 1..Len(options) :
                options[k].expected_value =
                    options[k].success_probability * options[k].xg_gain
                    - (One - options[k].success_probability) * options[k].turnover_cost

-----------------------------------------------------------------------------
(* Reading the last step of the run *)

Range(f) == {f[k] : k \in DOMAIN f}

Ids(players) == [k \in DOMAIN players |-> players[k].id]

Last == steps[Len(steps)]

\* The last iteration executed an action (execute was called and returned).
Executed == Len(steps) > 0 /\ Last.result # NoResult

\* The snapshot given to the last execute call, as it was at the call.
Pre == views[Len(views)]

\* The snapshot the last execute call returned.
Post == View(heap, Last.result.new_state)

IsPass(s) == s.action_chosen.action_type \in PassTypes

IsDribble(s) == s.action_chosen.action_type \in DribbleTypes

IsShot(s) == s.action_chosen.action_type = "SHOT"

\* The position, in the returned snapshot, of the player with the given id.
PositionAfter(id) ==
    LET all == Post.attackers \o Post.defenders
    IN  all[CHOOSE k \in DOMAIN all : all[k].id = id].position

-----------------------------------------------------------------------------
(* C3 *)

\* C3: whenever execute resolves an action as a failure (pass intercepted,
\* dribble tackled, shot blocked), the new ball carrier is a defender object
\* of the input snapshot, the ball lies at that defender's position, the new
\* attackers are the old defenders (by id) and the new defenders the old
\* attackers.
C3_FailureFlipsPossession ==
    (Executed /\ Last.result.result \in {"INTERCEPTED", "SAVED"}) =>
        /\ Post.fields.ball_carrier \in Range(Pre.defender_ids)
        /\ Post.fields.ball_position = Post.carrier[1].position
        /\ \E k \in DOMAIN Pre.defenders :
              /\ Pre.defender_ids[k] = Post.fields.ball_carrier
              /\ Pre.defenders[k].position = Post.fields.ball_position
        /\ Ids(Post.attackers) = Ids(Pre.defenders)
        /\ Ids(Post.defenders) = Ids(Pre.attackers)

\* A pass was intercepted, a dribble was tackled and a shot was blocked.
C3_Witness ==
    /\ Len(steps) = 2
    /\ steps[1].result.result = "SAVED"
    /\ Last.result.result = "INTERCEPTED"
    /\ IsDribble(Last)

-----------------------------------------------------------------------------
(* C4 *)

\* C4: after a pass or a dribble resolved as SUCCESS the ball is at the
\* action's target and the carrier of the new snapshot, if any, stands at the
\* target too, also as recorded in the new attackers list.
C4_BallAndCarrierAtTarget ==
    (Executed /\ Last.result.result = "SUCCESS") =>
        /\ Post.fields.ball_position = Last.action_chosen.target
        /\ Post.fields.ball_carrier # None =>
              /\ Post.carrier[1].position = Last.action_chosen.target
              /\ \A k \in DOMAIN Post.attackers :
                    Post.attackers[k].id = Post.carrier[1].id =>
                        Post.attackers[k].position = Last.action_chosen.target

-----------------------------------------------------------------------------
(* C5 *)

\* C5: with stop_on_possession_loss the loop ends at the first step that
\* flipped possession (interception, tackle or shot block): no step follows
\* such a step.
C5_StopsOnPossessionLoss ==
    stop_on_possession_loss =>
        \A k \in 1..Len(steps) :
            steps[k].result.result \in {"INTERCEPTED", "SAVED"} =>
                k = Len(steps)

-----------------------------------------------------------------------------
(* C6 *)

\* C6: with stop_on_goal a shot resolved as GOAL ends the loop: its step is
\* the last of the list and run has returned.
C6_StopsOnGoal ==
    stop_on_goal =>
        \A k \in 1..Len(steps) :
            steps[k].result.result = "GOAL" =>
                k = Len(steps) /\ pc = "done"

\* A shot scored and ended a run that had steps left.
C6_Witness ==
    /\ stop_on_goal
    /\ pc = "done"
    /\ Len(steps) > 0
    /\ Len(steps) < max_steps
    /\ Last.result.result = "GOAL"


-----------------------------------------------------------------------------
(* C7 *)

\* The defenders of the input snapshot that stand exactly at the target of
\* the last action.
DefendersAtTarget ==
    {k \in DOMAIN Pre.defenders :
        Pre.defenders[k].position = Last.action_chosen.target}

\* The new snapshot has the lists of the input snapshot swapped (by id).
ListsSwapped ==
    /\ Ids(Post.attackers) = Ids(Pre.defenders)
    /\ Ids(Post.defenders) = Ids(Pre.attackers)

\* C7 as claimed: a pass whose target coincides with a defender's position
\* is INTERCEPTED, that defender is the new ball carrier and the lists are
\* swapped, whatever the length of the pass.
C7_PassToDefenderIntercepted ==
    (Executed /\ IsPass(Last)) =>
        \A k \in DefendersAtTarget :
            /\ Last.result.result = "INTERCEPTED"
            /\ Post.fields.ball_carrier = Pre.defender_ids[k]
            /\ ListsSwapped

\* The length of the last pass, in cm.
PassLength ==
    distance_to(Pre.fields.ball_position, Last.action_chosen.target)

\* C7 as amended: a pass longer than 4.6875 m (REACTION_TIME < 0.8 * length /
\* PASS_SPEED) whose target coincides with a defender's position is
\* INTERCEPTED with the lists swapped; the new ball carrier is that defender
\* or a defender earlier in the list of defenders.  A pass of at most
\* 4.6875 m is never intercepted.
C7_LongPassToDefenderIntercepted ==
    (Executed /\ IsPass(Last)) =>
        /\ \A k \in DefendersAtTarget :
              32 * PassLength > 15000 =>
                  /\ Last.result.result = "INTERCEPTED"
                  /\ ListsSwapped
                  /\ \E j \in 1..k :
                        Post.fields.ball_carrier = Pre.defender_ids[j]
        /\ 32 * PassLength <= 15000 => Last.result.result = "SUCCESS"

\* A long pass to the second defender's position, intercepted by that
\* defender.
C7_Witness ==
    /\ Executed
    /\ IsPass(Last)
    /\ 2 \in DefendersAtTarget
    /\ 32 * PassLength > 15000
    /\ Last.result.result = "INTERCEPTED"
    /\ Post.fields.ball_carrier = Pre.defender_ids[2]

-----------------------------------------------------------------------------
(* C8 *)

\* C8: in every snapshot reached by execute calls from a snapshot whose
\* carrier is absent or an attacker, the carrier, if present, has its id in
\* the attackers list, and no other player of the snapshot bears that id.
C8_CarrierIsAttacker ==
    \A n \in 1..Len(heap.states) :
        LET v == View(heap, n)
        IN  v.fields.ball_carrier # None =>
                /\ Cardinality({k \in DOMAIN v.attackers :
                       v.attackers[k].id = v.carrier[1].id}) = 1
                /\ \A k \in DOMAIN v.defenders :
                       v.defenders[k].id # v.carrier[1].id

\* A carrier after a possession flip followed by a successful dribble.
C8_Witness ==
    /\ Len(steps) = 2
    /\ steps[1].result.result \in {"INTERCEPTED", "SAVED"}
    /\ Last.result.result = "SUCCESS"
    /\ IsDribble(Last)
    /\ Post.fields.ball_carrier # None

-----------------------------------------------------------------------------
(* C9 *)

\* C9: execute never mutates the snapshot it is given: the input snapshot of
\* every step still has the content it had at the call (fields, list
\* membership, every player's position), and the snapshot returned is a
\* GameState object that did not exist before the call.
C9_InputSnapshotUnchanged ==
    \A k \in 1..Len(steps) :
        /\ View(heap, steps[k].state_before) = views[k]
        /\ steps[k].result # NoResult =>
              /\ steps[k].result.new_state # initial_state
              /\ \A j \in 1..k :
                    steps[k].result.new_state # steps[j].state_before

\* A dribble moved a carrier, after an earlier step.
C9_Witness ==
    /\ Len(steps) = 2
    /\ Last.result.result = "SUCCESS"
    /\ IsDribble(Last)
    /\ Pre.fields.ball_carrier # None
    /\ Post.carrier[1].position # Pre.carrier[1].position

-----------------------------------------------------------------------------
(* C10 *)

\* Distance of defender k of the input snapshot to the new ball position,
\* before and after the last execute call.
DistBefore(k) ==
    distance_to(Pre.defenders[k].position, Post.fields.ball_position)

DistAfter(k) ==
    distance_to(PositionAfter(Pre.defenders[k].id), Post.fields.ball_position)

\* C10 as claimed: after every resolution each defender of the input
\* snapshot, other than the one who won the ball, is strictly nearer to the
\* new ball position unless it was already at the ball.
C10_DefendersApproachBall ==
    Executed =>
        \A k \in DOMAIN Pre.defenders :
            (Pre.defender_ids[k] # Post.fields.ball_carrier
                /\ DistBefore(k) > 0) =>
                    DistAfter(k) < DistBefore(k)

\* C10 as amended: after every resolution other than a goal each defender of
\* the input snapshot farther than 1 m from the new ball position has moved
\* toward it by min(PLAYER_SPEED * TIME_STEP * 0.5, distance) = min(2 m,
\* distance), up to rounding, and is strictly nearer; a defender within 1 m
\* keeps its position, and after a goal every defender keeps its position.
C10_DefendersReact ==
    Executed =>
        \A k \in DOMAIN Pre.defenders :
            IF Last.result.result # "GOAL" /\ DistBefore(k) > 100
            THEN /\ DistAfter(k) < DistBefore(k)
                 /\ Abs(DistBefore(k) - Min(200, DistBefore(k))
                        - DistAfter(k)) <= 2
            ELSE PositionAfter(Pre.defenders[k].id)
                     = Pre.defenders[k].position

\* A successful pass with one defender within 1 m of the ball (not at it) and
\* one farther than 2 m.
C10_Witness ==
    /\ Executed
    /\ Last.result.result = "SUCCESS"
    /\ \E k \in DOMAIN Pre.defenders :
          DistBefore(k) > 0 /\ DistBefore(k) <= 100
    /\ \E k \in DOMAIN Pre.defenders : DistBefore(k) > 200

-----------------------------------------------------------------------------
(* C11 *)

\* C11: every execute call returns a new state whose timestamp is the input
\* timestamp plus 0.5 s for a pass, a dribble or a blocked shot, whatever
\* the outcome, and plus 1.0 s for a goal; so the timestamps strictly
\* increase along the executed steps of a run.
C11_TimestampAdvances ==
    /\ \A k \in 1..Len(steps) :
          steps[k].result # NoResult =>
              /\ heap.states[steps[k].result.new_state].timestamp =
                     views[k].fields.timestamp
                     + (IF steps[k].result.result = "GOAL" THEN 1000 ELSE 500)
              /\ heap.states[steps[k].state_after].timestamp
                     > heap.states[steps[k].state_before].timestamp
    /\ \A k \in 1..(Len(steps) - 1) :
          heap.states[steps[k + 1].state_before].timestamp
              > heap.states[steps[k].state_before].timestamp

\* A successful pass followed by a goal: 0.5 s and then 1.0 s have passed.
C11_Witness ==
    /\ Len(steps) = 2
    /\ IsPass(steps[1])
    /\ steps[1].result.result = "SUCCESS"
    /\ Last.result.result = "GOAL"
    /\ heap.states[Last.state_after].timestamp = 1500

-----------------------------------------------------------------------------
(* C12 *)

\* The number of GameState objects that exist after call n has returned.
AllocatedAfter(n) ==
    IF n < Len(calls) THEN calls[n + 1].allocated ELSE Len(heap.states)

\* C12: execute called with an action whose type is none of SHOT,
\* PASS_FORWARD, PASS_LATERAL, PASS_BACKWARD, DRIBBLE and CARRY raises
\* ValueError: there is no ExecutionResult and no new state, and the input
\* snapshot has the content it had at the call.
C12_UnknownActionRaises ==
    \A n \in 1..Len(calls) :
        calls[n].action.action_type
            \notin ({"SHOT"} \cup PassTypes \cup DribbleTypes) =>
                /\ calls[n].outcome.result = "ValueError"
                /\ calls[n].outcome.new_state = None
                /\ AllocatedAfter(n) = calls[n].allocated
                /\ View(heap, calls[n].state) = calls[n].view

\* A call with a through_ball action on the snapshot a successful dribble
\* returned.
C12_Witness ==
    /\ Len(calls) = 2
    /\ calls[1].action.action_type = "DRIBBLE"
    /\ calls[1].outcome.result = "SUCCESS"
    /\ calls[2].action.action_type = "through_ball"
    /\ calls[2].state = calls[1].outcome.new_state
    /\ calls[2].outcome.result = "ValueError"

-----------------------------------------------------------------------------
(* C13 *)

-----------------------------------------------------------------------------
(* C14 *)

\* C14: every step of the list run returns bundles a chosen option and an
\* execution result: no step has action_chosen or result equal to None
\* (when no option is available the loop stops without appending a step).
C14_EveryStepHasActionAndResult ==
    \A k \in 1..Len(steps) :
        /\ steps[k].action_chosen # NoAction
        /\ steps[k].result # NoResult

-----------------------------------------------------------------------------
(* C15 *)

\* C15: for every option in an output of analyze, success_probability lies
\* within the documented bounds of its kind: within [0.05, 0.98] for every
\* pass and through-ball option, within [0.01, 0.95] for every shot option.
C15_SuccessProbabilityBounded ==
    \A n \in 1..Len(outputs) :
        LET options == outputs[n].progression_options
        IN  \A k \in 1..Len(options) :
                /\ options[k].action_type \in {"pass", "through_ball"} =>
                       /\ options[k].success_probability >= 500
                       /\ options[k].success_probability <= 9800
                /\ options[k].action_type = "shoot" =>
                       /\ options[k].success_probability >= 100
                       /\ options[k].success_probability <= 9500

-----------------------------------------------------------------------------
(* C16 *)

-----------------------------------------------------------------------------
(* C17 *)

-----------------------------------------------------------------------------
(* C18 *)

\* C18: the option list of an output of analyze holds exactly: one shot
\* option iff the ball is within 30 m of the goal centre (52.5, 0); one pass
\* option for each teammate whose id differs from ball_carrier_id; one
\* through-ball option for each detected gap marked exploitable; five
\* dribble options iff some teammate has the id ball_carrier_id.  With no
\* teammates, no opponents and the ball out of range the list is empty.
C18_OptionsGenerated ==
    \A n \in 1..Len(outputs) :
        LET options == outputs[n].progression_options
            gaps == outputs[n].defensive_gaps
            args == views[n]
            ball == args.ball_position
            Of(kind) == {k \in 1..Len(options) : options[k].action_type = kind}
            receivers == {k \in 1..Len(args.teammates) :
                             args.teammates[k].player_id # args.ball_carrier_id}
            exploitable == {k \in 1..Len(gaps) : gaps[k].exploitable}
            in_range == (5250 - ball[1]) * (5250 - ball[1]) + ball[2] * ball[2]
                            <= 3000 * 3000
        IN  /\ Cardinality(Of("shoot")) = (IF in_range THEN 1 ELSE 0)
            /\ Cardinality(Of("pass")) = Cardinality(receivers)
            /\ \A r \in receivers :
                   Cardinality({k \in Of("pass") :
                       /\ options[k].target_player_id = args.teammates[r].player_id
                       /\ options[k].target_position = args.teammates[r].position})
                     = 1
            /\ Cardinality(Of("through_ball")) = Cardinality(exploitable)
            /\ \A g \in exploitable :
                   \E k \in Of("through_ball") :
                       options[k].target_position = gaps[g].location
            /\ Cardinality(Of("dribble")) =
                   (IF \E k \in 1..Len(args.teammates) :
                          args.teammates[k].player_id = args.ball_carrier_id
                    THEN 5 ELSE 0)
            /\ Len(options) = Cardinality(Of("shoot")) + Cardinality(Of("pass"))
                                  + Cardinality(Of("through_ball"))
                                  + Cardinality(Of("dribble"))
            /\ (args.teammates = <<>> /\ args.opponents = <<>> /\ ~in_range) =>
                   options = <<>>

\* An output with a shot, three passes, a through ball and five dribbles.
C18_Witness ==
    \E n \in 1..Len(outputs) :
        LET options == outputs[n].progression_options
            Of(kind) == {k \in 1..Len(options) : options[k].action_type = kind}
        IN  /\ Cardinality(Of("shoot")) = 1
            /\ Cardinality(Of("pass")) = 3
            /\ Cardinality(Of("through_ball")) >= 1
            /\ Cardinality(Of("dribble")) = 5
            /\ views[n].ball_carrier_id = 1

-----------------------------------------------------------------------------
(* C19 *)

-----------------------------------------------------------------------------
(* C20 *)

\* C20: each gap detect_gaps emits between a pair of adjacent defenders has
\* size >= min_gap_size, and the whole list returned, pair gaps and
\* between-lines gaps together, is sorted non-increasing by xg_if_exploited.
C20_GapsWideAndSorted ==
    \A n \in 1..Len(outputs) :
        LET gaps == outputs[n].defensive_gaps
        IN  /\ \A k \in 1..Len(gaps) :
                   gaps[k].between_players # <<-1, -1>> => gaps[k].size >= 600
            /\ \A k \in 1..(Len(gaps) - 1) :
                   gaps[k].xg_if_exploited >= gaps[k + 1].xg_if_exploited

\* A list with pair gaps and between-lines gaps of different values.
C20_Witness ==
    \E n \in 1..Len(outputs) :
        LET gaps == outputs[n].defensive_gaps
        IN  /\ \E k \in 1..Len(gaps) : gaps[k].between_players = <<-1, -1>>
            /\ \E k \in 1..Len(gaps) : gaps[k].between_players # <<-1, -1>>
            /\ Len(gaps) >= 3
            /\ gaps[1].xg_if_exploited > gaps[Len(gaps)].xg_if_exploited

-----------------------------------------------------------------------------
(* C21 *)

\* The calls of a model made so far.
CallsOf(function) == {n \in 1..Len(outputs) : views[n].function = function}

\* The square of the distance between two points.
Dist2(a, b) == (a[1] - b[1]) * (a[1] - b[1]) + (a[2] - b[2]) * (a[2] - b[2])

\* C21: called on exactly two defenders at least min_gap_size (6 m) apart,
\* detect_gaps returns one gap, between the two, at their midpoint, and the
\* gap is exploitable if and only if the smaller of the two defenders' times
\* to reach the midpoint (reaction time plus distance over top speed) is
\* strictly more than 0.8 s + 1.0 s = 1.8 s.
C21_GapBetweenTwoDefenders ==
    \A n \in CallsOf("detect_gaps") :
        LET defenders == views[n].players
            gaps == outputs[n]
        IN  (Len(defenders) = 2
             /\ Dist2(defenders[1].position, defenders[2].position) >= 600 * 600)
            => LET a == defenders[1]
                   b == defenders[2]
                   midpoint == <<Trunc(a.position[1] + b.position[1], 2),
                                 Trunc(a.position[2] + b.position[2], 2)>>
                   reach(d) == d.reaction_time
                                   + (ISqrt(Dist2(midpoint, d.position)) * 1000)
                                         \div d.max_speed
               IN  /\ Len(gaps) = 1
                   /\ gaps[1].location = midpoint
                   /\ {gaps[1].between_players[1], gaps[1].between_players[2]}
                          = {a.player_id, b.player_id}
                   /\ gaps[1].exploitable <=> Min(reach(a), reach(b)) > 1800

\* detect_gaps has returned an exploitable gap for two defenders: the nearer
\* of them needs more than 1.8 s to its midpoint.
C21_Witness ==
    \E n \in CallsOf("detect_gaps") :
        /\ Len(views[n].players) = 2
        /\ Len(outputs[n]) = 1
        /\ outputs[n][1].exploitable
        /\ outputs[n][1].time_to_close > 1800

-----------------------------------------------------------------------------
(* C22 *)

\* The gaps of a list that are gaps between lines.
BetweenLines(gaps) ==
    {k \in 1..Len(gaps) : gaps[k].between_players = <<-1, -1>>}

\* The pairs of defenders that are consecutive in the order of their x.
Consecutive(defenders) ==
    {pair \in (1..Len(defenders)) \X (1..Len(defenders)) :
        /\ defenders[pair[1]].position[1] < defenders[pair[2]].position[1]
        /\ \A k \in 1..Len(defenders) :
               ~ /\ defenders[pair[1]].position[1] < defenders[k].position[1]
                 /\ defenders[k].position[1] < defenders[pair[2]].position[1]}

\* The largest x-gap between consecutive defenders, 0 if there is none.
LargestGap(defenders) ==
    LET x_gaps == {defenders[pair[2]].position[1] - defenders[pair[1]].position[1] :
                      pair \in Consecutive(defenders)}
    IN  IF x_gaps = {} THEN 0 ELSE CHOOSE g \in x_gaps : \A h \in x_gaps : h <= g

\* C22: every gap between lines that detect_gaps returns has an x between
\* the x of two consecutive defenders that bound the largest x-gap, and one
\* of the lateral offsets -15, 0, 15 m as its y.
C22_BetweenLinesGapInLargestGap ==
    \A n \in CallsOf("detect_gaps") :
        LET defenders == views[n].players
            gaps == outputs[n]
        IN  \A k \in BetweenLines(gaps) :
                /\ gaps[k].location[2] \in {-1500, 0, 1500}
                /\ \E pair \in Consecutive(defenders) :
                       LET back == defenders[pair[1]].position[1]
                           front == defenders[pair[2]].position[1]
                       IN  /\ front - back = LargestGap(defenders)
                           /\ back <= gaps[k].location[1]
                           /\ gaps[k].location[1] <= front

-----------------------------------------------------------------------------
(* C27 *)

\* C27: detect_gaps returns the empty list for fewer than two defenders and
\* no gap between lines for fewer than four.  Gaps between lines are
\* returned only when the largest x-gap between consecutive defenders is
\* more than 10 m; there are at most three of them, and each has the pair
\* (-1, -1), is exploitable and has as closing time the smallest time of any
\* defender to reach it, which is strictly more than 1.0 s.
C27_BetweenLinesGaps ==
    \A n \in CallsOf("detect_gaps") :
        LET defenders == views[n].players
            gaps == outputs[n]
            reach(d, point) == d.reaction_time
                                   + (ISqrt(Dist2(point, d.position)) * 1000)
                                         \div d.max_speed
        IN  /\ Len(defenders) < 2 => gaps = <<>>
            /\ Len(defenders) < 4 => BetweenLines(gaps) = {}
            /\ BetweenLines(gaps) # {} => LargestGap(defenders) > 1000
            /\ Cardinality(BetweenLines(gaps)) <= 3
            /\ \A k \in BetweenLines(gaps) :
                   /\ gaps[k].exploitable
                   /\ gaps[k].time_to_close > 1000
                   /\ \A d \in 1..Len(defenders) :
                          gaps[k].time_to_close <= reach(defenders[d], gaps[k].location)
                   /\ \E d \in 1..Len(defenders) :
                          gaps[k].time_to_close = reach(defenders[d], gaps[k].location)

\* detect_gaps has returned gaps between lines for two of the three offsets:
\* at the third a defender is less than 1.0 s away.
C27_Witness ==
    \E n \in CallsOf("detect_gaps") :
        /\ Len(views[n].players) >= 4
        /\ Cardinality(BetweenLines(outputs[n])) = 2

-----------------------------------------------------------------------------
(* C23 *)

\* The smallest time margin of a call of interception_probability, in ms.
Margin(n) ==
    MinOf(time_advantages(views[n].points[1], views[n].points[2],
                          views[n].players,
                          ISqrt(Dist2(views[n].points[1], views[n].points[2]))))

\* C23: for a pass of at least 0.1 m and a non-empty list of defenders,
\* interception_probability returns 0.9 for a smallest margin m > 0.5 s, a
\* value from 0.5 to 0.9 for 0 < m <= 0.5, a value from 0.3 to 0.5 for
\* -0.5 < m <= 0, and a value from 0.05 to 0.1 for any other m.
C23_DocumentedCurve ==
    \A n \in CallsOf("interception_probability") :
        (/\ Len(views[n].players) > 0
         /\ Dist2(views[n].points[1], views[n].points[2]) >= 10 * 10)
        => /\ Margin(n) > 500 => outputs[n] = 9000
           /\ (0 < Margin(n) /\ Margin(n) <= 500)
                  => (5000 <= outputs[n] /\ outputs[n] <= 9000)
           /\ (-500 < Margin(n) /\ Margin(n) <= 0)
                  => (3000 <= outputs[n] /\ outputs[n] <= 5000)
           /\ Margin(n) <= -500
                  => (500 <= outputs[n] /\ outputs[n] <= 1000)

-----------------------------------------------------------------------------
(* C24 *)

\* C24: a shot evaluated by shot_probability without goalkeeper and without
\* outfield defenders has block probability 0 and save probability 0, and
\* its final value is the base value of the position; the defenders flagged
\* as goalkeeper contribute nothing to the block probability, which is that
\* of the outfield defenders alone.
C24_NothingInFrontOfTheShooter ==
    \A n \in CallsOf("shot_probability") :
        LET shooter_pos == views[n].points[1]
            defenders == views[n].players
            outfield == pick(defenders,
                             {k \in 1..Len(defenders) : ~defenders[k].is_goalkeeper},
                             FALSE)
        IN  /\ outputs[n][2] = _defender_blocking(shooter_pos, outfield)
            /\ (views[n].goalkeeper = <<>> /\ Len(outfield) = 0)
                   => outputs[n] = <<_position_xg(shooter_pos), 0, 0>>

\* A shot from (49, 0) without goalkeeper, with a player flagged as
\* goalkeeper standing in its line, has been evaluated: the value is the
\* base value 0.6.
C24_Witness ==
    \E n \in CallsOf("shot_probability") :
        /\ views[n].points[1] = <<4900, 0>>
        /\ views[n].goalkeeper = <<>>
        /\ Len(views[n].players) = 1
        /\ views[n].players[1].is_goalkeeper
        /\ views[n].players[1].position = <<5100, 0>>
        /\ outputs[n] = <<6000, 0, 0>>

-----------------------------------------------------------------------------
(* C25 *)

\* C25: degenerate geometry yields a sentinel: time_to_reach is infinite for
\* a player whose top speed is not positive; for a pass shorter than 0.1 m
\* interception_probability is 0 and can_intercept is (False, 0.0); the
\* block probability of a shot from less than 0.1 m from the goal centre
\* is 0.
C25_DegenerateGeometry ==
    \A n \in 1..Len(outputs) :
        LET call == views[n]
        IN  /\ (call.function = "time_to_reach" /\ call.players[1].max_speed <= 0)
                   => outputs[n] = Inf
            /\ (/\ call.function = "interception_probability"
                /\ Dist2(call.points[1], call.points[2]) < 10 * 10)
                   => outputs[n] = 0
            /\ (/\ call.function = "can_intercept"
                /\ Dist2(call.points[1], call.points[2]) < 10 * 10)
                   => outputs[n] = <<FALSE, 0>>
            /\ (/\ call.function = "shot_probability"
                /\ Dist2(call.points[1], <<5250, 0>>) < 10 * 10)
                   => outputs[n][2] = 0

\* interception_probability has returned 0 for a pass of 9 cm with a defender
\* standing on its origin.
C25_Witness ==
    \E n \in CallsOf("interception_probability") :
        /\ views[n].points = << <<0, 0>>, <<0, -9>> >>
        /\ Len(views[n].players) > 0
        /\ views[n].players[1].position = <<0, 0>>
        /\ views[n].players[1].max_speed > 0
        /\ outputs[n] = 0

-----------------------------------------------------------------------------
(* C26 *)

\* C26: in the list of steps of run the first step's state_before is the
\* initial state, every later step's state_before is the state_after of the
\* step before it, and the state_after of every step that executed an action
\* is the new_state of its result.
C26_SnapshotThreaded ==
    /\ Len(steps) > 0 => steps[1].state_before = initial_state
    /\ \A k \in 2..Len(steps) :
           steps[k].state_before = steps[k - 1].state_after
    /\ \A k \in 1..Len(steps) :
           steps[k].result # NoResult =>
               steps[k].state_after = steps[k].result.new_state

\* run has made two steps, the second from the snapshot the first returned,
\* which is not the initial one.
C26_Witness ==
    /\ Len(steps) = 2
    /\ steps[1].result # NoResult
    /\ steps[2].result # NoResult
    /\ steps[2].state_before = steps[1].result.new_state
    /\ steps[2].state_before # initial_state

-----------------------------------------------------------------------------
(* C28 *)

\* C28: a dribble is tackled (INTERCEPTED, the ball to the tackler) whenever
\* a defender is within 2 m of the path of the dribble, the segment from the
\* ball position to the target; the tackler is the first such defender of
\* the list.
C28_TackledOnThePath ==
    (Executed /\ IsDribble(Last)) =>
        LET near == {k \in DOMAIN Pre.defenders :
                        perpendicular_distance_to_line(
                            Pre.defenders[k].position, Pre.fields.ball_position,
                            Last.action_chosen.target) < 200}
        IN  near # {} =>
                /\ Last.result.result = "INTERCEPTED"
                /\ Post.fields.ball_carrier = Pre.defender_ids[MinOf(near)]

-----------------------------------------------------------------------------
(* C29 *)

-----------------------------------------------------------------------------
(* C30 *)

\* C30: execute never returns OUT_OF_BOUNDS: a pass or a dribble is SUCCESS
\* or INTERCEPTED and a shot GOAL or SAVED, also when the target of the
\* action lies outside the pitch; the ball of a successful pass or dribble
\* then lies at that target.
C30_NeverOutOfBounds ==
    \A n \in 1..Len(calls) :
        LET action == calls[n].action
            outcome == calls[n].outcome
        IN  /\ outcome.result # "OUT_OF_BOUNDS"
            /\ action.action_type \in PassTypes \cup DribbleTypes
                   => outcome.result \in {"SUCCESS", "INTERCEPTED"}
            /\ action.action_type = "SHOT" => outcome.result \in {"GOAL", "SAVED"}
            /\ (/\ action.action_type \in PassTypes \cup DribbleTypes
                /\ outcome.result = "SUCCESS")
                   => heap.states[outcome.new_state].ball_position = action.target

\* A dribble to a target behind the goal line has succeeded: the ball lies
\* 1.5 m behind the line.
C30_Witness ==
    \E n \in 1..Len(calls) :
        /\ calls[n].action.action_type = "DRIBBLE"
        /\ calls[n].action.target = <<5400, 400>>
        /\ calls[n].outcome.result = "SUCCESS"
        /\ heap.states[calls[n].outcome.new_state].ball_position = <<5400, 400>>


====
